---- MODULE Spec2Model ----
(***************************************************************************)
(* pydanclick: conversion of a Pydantic model into Click options and the   *)
(* assembly of the parsed keyword values back into the nested mapping that *)
(* is handed to `model_validate`.                                          *)
(*                                                                         *)
(* Python strings are modelled as sequences of one-character strings, so   *)
(* that joining, splitting, prefix tests and the exclusion regex work on   *)
(* the characters as the code does.  Python values are tagged tuples:      *)
(*   <<"None">>, <<"val", n>>, <<"str", s>>, <<"list", items>>,            *)
(*   <<"dict", pairs>> with pairs a sequence of <<key, value>> (a dict     *)
(*   keeps insertion order), and <<"error", name>> for a raised exception. *)
(***************************************************************************)
EXTENDS Integers, Sequences, FiniteSets, TLC

VARIABLES
    pc,               \* position in the pipeline
    model,            \* the Pydantic model being converted
    unpack_list,      \* convert_to_click(unpack_list=...)
    exclude,          \* convert_to_click(exclude=...), a set of dotted names
    prefix,           \* convert_to_click(prefix=...), None or a string
    rename,           \* convert_to_click(rename=...), a dict
    hash_seed,        \* fixes the iteration order of Python sets in this process
    fields,           \* list[_Field] returned by collect_fields
    qualified_names,  \* dict ArgumentName -> DottedFieldName captured by the validator
    options,          \* list of click options returned by convert_fields_to_options
    unpacked_names,   \* set of dotted names captured by the validator
    kwargs,           \* the keyword dict handed to the validator (mutated in place)
    used,             \* TRUE once `kwargs` (this dict object) was passed to the validator
    calls,            \* history of validator invocations
    cfg_pc,           \* position of the call of get_config
    schema_options,   \* the __pydanclick__ attribute of the model given to get_config
    call_options,     \* the keyword arguments given to get_config
    config,           \* the _Config returned by get_config
    tpc,              \* position in the use of the type mapper
    TYPES_NAMES,      \* known_types.TYPES_NAMES, the registry of string types
    mapped_field,     \* the FieldInfo given to _get_type_from_field
    types_names_then, \* TYPES_NAMES when _get_type_from_field was called
    click_type,       \* the parameter type returned by _get_type_from_field
    raw_value,        \* the value given to the convert method of click_type
    convert_result,   \* what convert returned
    upc,              \* position of the call of _unflatten_dict
    flat_dict,        \* the flat dict given to _unflatten_dict
    unflattened,      \* what _unflatten_dict returned
    mpc,              \* position in the use of main.from_pydantic
    main_model,       \* from_pydantic(__var, model, ...)
    main_var,         \* the name __var of the keyword that receives the instance
    main_exclude,     \* from_pydantic(exclude=...), field names
    main_fields,      \* the dict `fields` captured by the decorator (its keys)
    wrapped_kwargs,   \* the keywords the decorated handler was invoked with
    handler_kwargs,   \* the keywords the original handler was called with
    fpc,              \* position in the use of convert_fields_to_options
    conv_fields,      \* convert_fields_to_options(fields, ...)
    conv_prefix,      \* convert_fields_to_options(prefix=...)
    conv_aliases,     \* convert_fields_to_options(aliases=...)
    conv_ignore_unsupported, \* convert_fields_to_options(ignore_unsupported=...)
    conv_result       \* the pair it returned, or the exception that went through it

pipeline_vars == <<pc, model, unpack_list, exclude, prefix, rename, hash_seed, fields,
                   qualified_names, options, unpacked_names, kwargs, used, calls>>

config_vars == <<cfg_pc, schema_options, call_options, config>>

type_vars == <<tpc, TYPES_NAMES, mapped_field, types_names_then, click_type, raw_value,
               convert_result>>

unflatten_vars == <<upc, flat_dict, unflattened>>

main_vars == <<mpc, main_model, main_var, main_exclude, main_fields, wrapped_kwargs,
               handler_kwargs>>

fields_vars == <<fpc, conv_fields, conv_prefix, conv_aliases, conv_ignore_unsupported,
                 conv_result>>

extra_vars == <<unflatten_vars, main_vars, fields_vars>>

vars == <<pipeline_vars, config_vars, type_vars, extra_vars>>

-----------------------------------------------------------------------------
(* Bounds *)

\* largest number of repetitions of a repeatable option on one command line
MaxOccur == 2

\* largest number of validator invocations recorded in one behaviour
MaxCalls == 2

-----------------------------------------------------------------------------
(* Strings *)

None == <<"None">>

RECURSIVE Join(_, _)
\* sep.join(parts)
Join(parts, sep) ==
    IF Len(parts) = 0 THEN <<>>
    ELSE IF Len(parts) = 1 THEN parts[1]
    ELSE parts[1] \o <<sep>> \o Join(Tail(parts), sep)

RECURSIVE SplitFrom(_, _, _)
\* s.split(sep), `cur` being the part read so far
SplitFrom(s, sep, cur) ==
    IF Len(s) = 0 THEN <<cur>>
    ELSE IF s[1] = sep THEN <<cur>> \o SplitFrom(Tail(s), sep, <<>>)
    ELSE SplitFrom(Tail(s), sep, Append(cur, s[1]))

Split(s, sep) == SplitFrom(s, sep, <<>>)

\* s.replace(old, new) for one-character old
Replace(s, old, new) == [i \in 1..Len(s) |-> IF s[i] = old THEN new ELSE s[i]]

\* s.startswith(p)
StartsWith(s, p) == Len(p) <= Len(s) /\ SubSeq(s, 1, Len(p)) = p

Upper ==
    [c \in {"A", "B", "C", "F", "M"} |->
        CASE c = "A" -> "a" [] c = "B" -> "b" [] c = "C" -> "c" [] c = "F" -> "f" [] c = "M" -> "m"]

\* s.lower()
Lower(s) == [i \in 1..Len(s) |-> IF s[i] \in DOMAIN Upper THEN Upper[s[i]] ELSE s[i]]

\* regex \w : letters, digits and the underscore
IsWordChar(c) == c \notin {".", "-", "/", " "}

\* mutant: the pattern without its trailing \b
WordBoundary_missing(s, n) == TRUE

\* regex \b at offset n of s (between s[n] and s[n+1])
WordBoundary(s, n) ==
    LET before == n >= 1 /\ n <= Len(s) /\ IsWordChar(s[n])
        after  == n + 1 <= Len(s) /\ IsWordChar(s[n + 1])
    IN  before # after

RECURSIVE LStrip(_)
LStrip(s) == IF Len(s) > 0 /\ s[1] = "-" THEN LStrip(Tail(s)) ELSE s

RECURSIVE RStrip(_)
RStrip(s) == IF Len(s) > 0 /\ s[Len(s)] = "-" THEN RStrip(SubSeq(s, 1, Len(s) - 1)) ELSE s

\* utils.strip_option_name
strip_option_name(name) == RStrip(LStrip(name))

\* the dots of a dotted name left in place
snake_case_to_kebab_case_dots(name) == Replace(Lower(name), "_", "-")

\* utils.snake_case_to_kebab_case
snake_case_to_kebab_case(name) == Replace(Replace(Lower(name), "_", "-"), ".", "-")

\* utils.kebab_case_to_snake_case
kebab_case_to_snake_case(name) == Replace(name, "-", "_")

-----------------------------------------------------------------------------
(* Dicts: sequences of <<key, value>> in insertion order *)

DictKeys(d) == [i \in 1..Len(d) |-> d[i][1]]

DictHas(d, k) == \E i \in 1..Len(d) : d[i][1] = k

DictGet(d, k) == d[CHOOSE i \in 1..Len(d) : d[i][1] = k][2]

\* d[k] = v : an existing key keeps its position
DictSet(d, k, v) ==
    IF DictHas(d, k)
    THEN [i \in 1..Len(d) |-> IF d[i][1] = k THEN <<k, v>> ELSE d[i]]
    ELSE Append(d, <<k, v>>)

\* del d[k] / d.pop(k)
DictDel(d, k) == SelectSeq(d, LAMBDA e : e[1] # k)

-----------------------------------------------------------------------------
(* Types and models *)

Scalar(n) == [origin |-> "", name |-> n, args |-> <<>>]
Model(n) == [origin |-> "", name |-> n, args |-> <<>>]
ListOf(t) == [origin |-> "list", name |-> "", args |-> <<t>>]
UnionOf(ts) == [origin |-> "Union", name |-> "", args |-> ts]
NoneType == Scalar("NoneType")

\* a value listed in Literal[...]
LiteralValue(v) == [origin |-> "value", name |-> v, args |-> <<>>]

LiteralOf(values) == [origin |-> "Literal", name |-> "", args |-> values]

\* FieldInfo: default is "Undefined", "None" or "value"; metadata holds the constraints
FieldInfo(ann, default, factory, metadata) ==
    [annotation |-> ann, default |-> default, default_factory |-> factory,
     metadata |-> metadata]

Field(n, ann, default, factory) == [name |-> n, info |-> FieldInfo(ann, default, factory, <<>>)]

ModelNames ==
    {"Foo", "Baz", "Bar", "Obj", "Foos", "OptionalFoos", "UnionFoos", "MultipleFoos",
     "NestedFoos", "NestedOptionalFoos", "Either", "Maybe", "Flat", "Outer", "Inner", "Rows",
     "Flags"}

\* the declared fields of each model, in declaration order
model_fields(m) ==
    CASE m = "Foo" ->
           <<Field(<<"a">>, Scalar("int"), "value", FALSE),
             Field(<<"b">>, Scalar("bool"), "value", FALSE)>>
      [] m = "Baz" ->
           <<Field(<<"c">>, LiteralOf(<<LiteralValue("a"), LiteralValue("b")>>), "value", FALSE)>>
      [] m = "Bar" ->
           <<Field(<<"a">>, Scalar("float"), "value", FALSE),
             Field(<<"b">>, Scalar("str"), "value", FALSE),
             Field(<<"b", "a", "z">>, Model("Baz"), "Undefined", TRUE)>>
      [] m = "Obj" ->
           <<Field(<<"f", "o", "o">>, Model("Foo"), "Undefined", TRUE),
             Field(<<"b", "a", "r">>, Model("Bar"), "Undefined", TRUE)>>
      [] m = "Foos" ->
           <<Field(<<"f", "o", "o", "s">>, ListOf(Model("Foo")), "Undefined", FALSE)>>
      [] m = "OptionalFoos" ->
           <<Field(<<"f", "o", "o", "s">>, ListOf(Model("Foo")), "Undefined", TRUE)>>
      [] m = "UnionFoos" ->
           <<Field(<<"f", "o", "o", "b", "a", "z", "s">>,
                   ListOf(UnionOf(<<Model("Foo"), Model("Baz")>>)), "Undefined", FALSE),
             Field(<<"f", "o", "o", "s">>, ListOf(Model("Foo")), "Undefined", FALSE)>>
      [] m = "MultipleFoos" ->
           <<Field(<<"f", "o", "o", "s">>, ListOf(Model("Foo")), "Undefined", FALSE),
             Field(<<"b", "a", "z", "s">>, ListOf(Model("Baz")), "Undefined", FALSE)>>
      [] m = "NestedFoos" ->
           <<Field(<<"n", "e", "s", "t", "e", "d">>, Model("Foos"), "Undefined", FALSE)>>
      [] m = "NestedOptionalFoos" ->
           <<Field(<<"n", "e", "s", "t", "e", "d">>, Model("OptionalFoos"), "Undefined", TRUE)>>
      [] m = "Either" ->
           <<Field(<<"x">>, UnionOf(<<Model("Foo"), Model("Bar")>>), "Undefined", FALSE)>>
      [] m = "Maybe" ->
           <<Field(<<"f", "o", "o">>, UnionOf(<<Model("Foo"), NoneType>>), "None", FALSE),
             Field(<<"n">>, UnionOf(<<Scalar("int"), NoneType>>), "None", FALSE)>>
      [] m = "Flat" ->
           <<Field(<<"f", "o", "o">>, Model("Foo"), "Undefined", TRUE),
             Field(<<"f", "o", "o", "_", "a">>, Scalar("int"), "Undefined", FALSE)>>
      [] m = "Outer" ->
           <<Field(<<"i", "t", "e", "m", "s">>, ListOf(Model("Inner")), "Undefined", FALSE)>>
      [] m = "Inner" ->
           <<Field(<<"n">>, Scalar("int"), "Undefined", FALSE),
             Field(<<"f", "o", "o", "s">>, ListOf(Model("Foo")), "Undefined", TRUE)>>
      [] m = "Rows" ->
           <<Field(<<"r", "o", "w", "s">>, ListOf(Model("Bar")), "Undefined", TRUE)>>
      [] m = "Flags" ->
           <<Field(<<"v">>, Scalar("bool"), "value", FALSE),
             Field(<<"f", "o", "o">>, Model("Foo"), "Undefined", TRUE)>>
      [] m = "Odd" ->
           <<Field(<<"a">>, Scalar("int"), "value", FALSE),
             Field(<<"t", "h", "i", "n", "g">>, Scalar("Thing"), "Undefined", FALSE),
             Field(<<"b">>, Scalar("bool"), "value", FALSE)>>
      [] m = "Odds" ->
           <<Field(<<"x">>, Scalar("Thing"), "Undefined", FALSE),
             Field(<<"n">>, Scalar("int"), "Undefined", FALSE),
             Field(<<"f", "o", "o", "s">>, ListOf(Model("Foo")), "Undefined", TRUE),
             Field(<<"y">>, UnionOf(<<Scalar("Thing"), NoneType>>), "None", FALSE)>>
      [] m = "Typed" ->
           <<Field(<<"a">>, Scalar("int"), "value", FALSE),
             Field(<<"m", "o", "v", "i", "e">>, Scalar("Movie"), "Undefined", FALSE),
             Field(<<"t", "h", "i", "n", "g">>, Scalar("Thing"), "Undefined", FALSE)>>

\* field_collection._is_pydantic_model
_is_pydantic_model(t) == t.origin = "" /\ t.name \in ModelNames

\* field_collection._iter_union
_iter_union(field_type) == IF field_type.origin = "Union" THEN field_type.args ELSE <<>>

\* field_collection._get_pydantic_fields
_get_pydantic_fields(obj) == model_fields(obj)

-----------------------------------------------------------------------------
(* field_collection: collecting the fields of a model *)

\* the two kinds of object _collect_fields is called with
ModelObj(m) == [kind |-> "model", model |-> m]
FieldObj(info) == [kind |-> "field", info |-> info]

\* _Field(name=..., dotted_name=..., parents=..., field_info=...), unpacked_from defaulting to None
_Field(name, dotted_name, parents, field_info) ==
    [name |-> name, dotted_name |-> dotted_name, parents |-> parents,
     field_info |-> field_info, unpacked_from |-> None]

\* _Field.is_boolean_flag
is_boolean_flag(field) == field.field_info.annotation = Scalar("bool")

\* _Field.multiple
multiple(field) == field.unpacked_from # None

\* mutant: the fields of a model are visited last to first
FieldOrder_reversed(m) ==
    [i \in 1..Len(_get_pydantic_fields(m)) |-> Len(_get_pydantic_fields(m)) + 1 - i]

\* the order in which the fields of a model are visited: declaration order
FieldOrder(m) == [i \in 1..Len(_get_pydantic_fields(m)) |-> i]

RECURSIVE _collect_fields(_, _, _, _)
RECURSIVE CollectModelFields(_, _, _, _)
RECURSIVE CollectUnion(_, _, _, _)

\* the loop `for field_name, field in _get_pydantic_fields(model).items()` from its i-th step on
CollectModelFields(m, order, parents, unpack) ==
    IF Len(order) = 0 THEN <<>>
    ELSE LET f == _get_pydantic_fields(m)[order[1]]
         IN  _collect_fields(FieldObj(f.info), f.name, Append(parents, f.name), unpack)
                 \o CollectModelFields(m, Tail(order), parents, unpack)

\* the loop `for annotation in _iter_union(obj.annotation)`
CollectUnion(members, name, parents, unpack) ==
    IF Len(members) = 0 THEN <<>>
    ELSE (IF _is_pydantic_model(members[1])
          THEN _collect_fields(ModelObj(members[1].name), name, parents, unpack)
          ELSE <<>>)
             \o CollectUnion(Tail(members), name, parents, unpack)

\* the fields yielded for a FieldInfo that is not expanded as a list: the models of a
\* union first, then the field itself
YieldLeaf(obj, name, dotted_name, parents, unpack) ==
    CollectUnion(_iter_union(obj.info.annotation), name, parents, unpack)
        \o <<_Field(name, dotted_name, parents, obj.info)>>

\* mutant: unpack_list is not consulted
IsUnpackedList_always(annotation, unpack) ==
    /\ annotation.origin = "list"
    /\ Len(annotation.args) = 1
    /\ _is_pydantic_model(annotation.args[1])

\* the condition under which a field is expanded into the fields of its list items
IsUnpackedList(annotation, unpack) ==
    /\ unpack
    /\ annotation.origin = "list"
    /\ Len(annotation.args) = 1
    /\ _is_pydantic_model(annotation.args[1])

\* mutant: unpacking goes on inside the model of an unpacked list
UnpackInsideList_on == TRUE

\* the value of unpack_list passed down into the model of an unpacked list
UnpackInsideList == FALSE

_collect_fields(obj, name, parents, unpack) ==
    IF obj.kind = "model" \/ _is_pydantic_model(obj.info.annotation)
    THEN LET m == IF obj.kind = "model" THEN obj.model ELSE obj.info.annotation.name
         IN  CollectModelFields(m, FieldOrder(m), parents, unpack)
    ELSE LET dotted_name == Join(parents, ".")
         IN  IF IsUnpackedList(obj.info.annotation, unpack)
             THEN LET collected == _collect_fields(ModelObj(obj.info.annotation.args[1].name),
                                                   name, parents, UnpackInsideList)
                  IN  [i \in 1..Len(collected) |->
                          [collected[i] EXCEPT !.unpacked_from = dotted_name]]
             ELSE YieldLeaf(obj, name, dotted_name, parents, unpack)

\* re.search(excluded_pattern, dotted_name) with the pattern "^(p1|p2|...)\b", every "." of
\* the excluded names being replaced by "[.]"
ExcludedMatch(excluded_fields, dotted_name) ==
    \E p \in excluded_fields : StartsWith(dotted_name, p) /\ WordBoundary(dotted_name, Len(p))

collect_fields(obj, excluded_fields, unpack) ==
    SelectSeq(_collect_fields(ModelObj(obj), <<>>, <<>>, unpack),
              LAMBDA option : excluded_fields = {} \/ ~ExcludedMatch(excluded_fields, option.dotted_name))

-----------------------------------------------------------------------------
(* field_conversion: from fields to options *)

Error(name) == <<"error", name>>
IsError(v) == Len(v) = 2 /\ v[1] = "error"

Contains_never(s, c) == FALSE

Contains(s, c) == \E i \in 1..Len(s) : s[i] = c

-----------------------------------------------------------------------------
(* type_conversion and known_types: from a field to a Click parameter type *)

\* the names of the Click types
ClickNames ==
    [text |-> <<"t", "e", "x", "t">>,
     integer |-> <<"i", "n", "t", "e", "g", "e", "r">>,
     integer_range |-> <<"i", "n", "t", "e", "g", "e", "r", " ", "r", "a", "n", "g", "e">>,
     float |-> <<"f", "l", "o", "a", "t">>,
     float_range |-> <<"f", "l", "o", "a", "t", " ", "r", "a", "n", "g", "e">>,
     boolean |-> <<"b", "o", "o", "l", "e", "a", "n">>,
     uuid |-> <<"u", "u", "i", "d">>,
     path |-> <<"p", "a", "t", "h">>,
     datetime |-> <<"d", "a", "t", "e", "t", "i", "m", "e">>,
     choice |-> <<"c", "h", "o", "i", "c", "e">>,
     json_string |-> <<"J", "S", "O", "N", " ", "S", "T", "R", "I", "N", "G">>]

\* the names of known_types.TYPES_NAMES
KnownNames ==
    [secret |-> <<"s", "e", "c", "r", "e", "t">>,
     url |-> <<"u", "r", "l">>,
     email |-> <<"e", "m", "a", "i", "l">>,
     ip |-> <<"i", "p">>,
     network |-> <<"n", "e", "t", "w", "o", "r", "k">>,
     iface |-> <<"i", "f", "a", "c", "e">>]

\* known_types.TYPES_NAMES when the module is imported
DefaultTypesNames ==
    << <<"SecretStr", KnownNames.secret>>, <<"SecretBytes", KnownNames.secret>>,
       <<"Url", KnownNames.url>>, <<"MultiHostUrl", KnownNames.url>>,
       <<"EmailStr", KnownNames.email>>, <<"NameEmail", KnownNames.email>>,
       <<"IPvAnyAddress", KnownNames.ip>>, <<"IPv4Address", KnownNames.ip>>, <<"IPv6Address", KnownNames.ip>>,
       <<"IPvAnyNetwork", KnownNames.network>>, <<"IPv4Network", KnownNames.network>>,
       <<"IPv6Network", KnownNames.network>>,
       <<"IPvAnyInterface", KnownNames.iface>>, <<"IPv4Interface", KnownNames.iface>>,
       <<"IPv6Interface", KnownNames.iface>> >>

RECURSIVE CamelLoop(_, _)
CamelLoop(name, i) ==
    IF i > Len(name) THEN <<>>
    ELSE (IF i > 1 /\ name[i] \in DOMAIN Upper THEN <<"_">> ELSE <<>>)
             \o <<name[i]>> \o CamelLoop(name, i + 1)

\* utils.camel_case_to_snake_case
camel_case_to_snake_case(name) == Lower(CamelLoop(name, 1))

register_pydanclick_string_type_reset(types_names, new_type, name) ==
    DictSet(DefaultTypesNames, new_type.name,
            IF name = None THEN camel_case_to_snake_case(new_type.__name__) ELSE name)

\* known_types.register_pydanclick_string_type; new_type is [name, __name__]
register_pydanclick_string_type(types_names, new_type, name) ==
    DictSet(types_names, new_type.name,
            IF name = None \/ name = <<>> THEN camel_case_to_snake_case(new_type.__name__)
            ELSE name)

NoAnnotation == [origin |-> "", name |-> "", args |-> <<>>]

\* a click.ParamType: its class, its name and what it was built with
ParamType(class, name, range_args, choices, annotation) ==
    [class |-> class, name |-> name, range |-> range_args, choices |-> choices,
     annotation |-> annotation]

click_STRING == ParamType("StringParamType", ClickNames.text, <<>>, <<>>, NoAnnotation)
click_INT == ParamType("IntParamType", ClickNames.integer, <<>>, <<>>, NoAnnotation)
click_FLOAT == ParamType("FloatParamType", ClickNames.float, <<>>, <<>>, NoAnnotation)
click_BOOL == ParamType("BoolParamType", ClickNames.boolean, <<>>, <<>>, NoAnnotation)
click_UUID == ParamType("UUIDParameterType", ClickNames.uuid, <<>>, <<>>, NoAnnotation)
click_Path == ParamType("Path", ClickNames.path, <<>>, <<>>, NoAnnotation)
click_DateTime == ParamType("DateTime", ClickNames.datetime, <<>>, <<>>, NoAnnotation)
IntRange(range_args) == ParamType("IntRange", ClickNames.integer_range, range_args, <<>>, NoAnnotation)
FloatRange(range_args) == ParamType("FloatRange", ClickNames.float_range, range_args, <<>>, NoAnnotation)
Choice(choices) == ParamType("Choice", ClickNames.choice, <<>>, choices, NoAnnotation)

\* known_types.pydantic_string_param_type
pydantic_string_param_type(name, annotation) ==
    ParamType("PydanticStringParam", name, <<>>, <<>>, annotation)

\* known_types.get_pydantic_paramtype: None when the type is not in TYPES_NAMES; the
\* metadata of the field are folded into the annotation the parameter type validates
get_pydantic_paramtype(types_names, field_type, field) ==
    IF DictHas(types_names, field_type.name) /\ field_type.origin = ""
    THEN pydantic_string_param_type(DictGet(types_names, field_type.name),
                                    [origin |-> "Annotated", name |-> field.annotation.name,
                                     args |-> <<field.annotation>> \o field.metadata])
    ELSE None

RECURSIVE RangeLoop(_, _)
\* the loop of _get_range_from_metadata over the constraints
RangeLoop(metadata, range_args) ==
    IF metadata = <<>> THEN range_args
    ELSE LET c == metadata[1]
             r == CASE c.kind = "Le" ->
                         DictSet(DictSet(range_args, "max", c.bound), "max_open", FALSE)
                    [] c.kind = "Lt" ->
                         DictSet(DictSet(range_args, "max", c.bound), "max_open", TRUE)
                    [] c.kind = "Ge" ->
                         DictSet(DictSet(range_args, "min", c.bound), "min_open", FALSE)
                    [] c.kind = "Gt" ->
                         DictSet(DictSet(range_args, "min", c.bound), "min_open", TRUE)
                    [] OTHER -> range_args
         IN  RangeLoop(Tail(metadata), r)

\* type_conversion._get_range_from_metadata
_get_range_from_metadata(metadata) == RangeLoop(metadata, <<>>)

\* type_conversion._get_numerical_type
_get_numerical_type(field) ==
    LET range_args == _get_range_from_metadata(field.metadata)
    IN  IF \/ field.annotation = Scalar("int")
           \/ \E i \in 1..Len(field.annotation.args) : field.annotation.args[i] = Scalar("int")
        THEN IF range_args # <<>> THEN IntRange(range_args) ELSE click_INT
        ELSE IF range_args # <<>> THEN FloatRange(range_args) ELSE click_FLOAT

\* the code of the PydanticUserError for a type without schema
schema_for_unknown_type ==
    <<"s", "c", "h", "e", "m", "a", "-", "f", "o", "r", "-", "u", "n", "k", "n", "o", "w", "n",
      "-", "t", "y", "p", "e">>

RECURSIVE TypeAdapterError(_)
\* the code of the PydanticUserError that TypeAdapter(annotation) raises, <<>> when it
\* builds a schema: Thing is a plain class, for which no schema can be generated, Movie a
\* typing.TypedDict, refused with another code
TypeAdapterError(annotation) ==
    IF annotation = Scalar("Thing") THEN schema_for_unknown_type
    ELSE IF annotation = Scalar("Movie")
    THEN <<"t", "y", "p", "e", "d", "-", "d", "i", "c", "t", "-", "v", "e", "r", "s", "i", "o", "n">>
    ELSE IF annotation.origin \in {"list", "Union"}
    THEN LET raising == SelectSeq(annotation.args, LAMBDA t : TypeAdapterError(t) # <<>>)
         IN  IF raising = <<>> THEN <<>> ELSE TypeAdapterError(raising[1])
    ELSE <<>>

\* a PydanticUserError going up the call stack, in the shape of a parameter type: its
\* code is held by `name`
PydanticUserError(code, annotation) ==
    ParamType("PydanticUserError", code, <<>>, <<>>, annotation)

\* whether the value stands for a PydanticUserError being raised
IsUserError(v) == "class" \in DOMAIN v /\ v.class = "PydanticUserError"

\* type_conversion._create_custom_type: TypeAdapter(field.annotation) may raise
_create_custom_type(field) ==
    IF TypeAdapterError(field.annotation) # <<>>
    THEN PydanticUserError(TypeAdapterError(field.annotation), field.annotation)
    ELSE ParamType("custom", ClickNames.json_string, <<>>, <<>>, field.annotation)

\* the test on the default of an Optional field in _get_click_type_from_field
DefaultAllowsCollapse(default) == default # "Undefined"

\* next(field_arg for field_arg in field_args if field_arg is not None): no member of the
\* union is the object None, so this is the first member
FirstMember(field_args) == field_args[1]

\* type_conversion._get_click_type_from_field
_get_click_type_from_field(field) ==
    LET field_args == field.annotation.args
        field_origin == field.annotation.origin
        field_type == IF /\ field_origin = "Union"
                         /\ Len(field_args) = 2
                         /\ \E i \in 1..Len(field_args) : field_args[i] = NoneType
                         /\ DefaultAllowsCollapse(field.default)
                      THEN FirstMember(field_args)
                      ELSE field.annotation
    IN  CASE field_type = Scalar("str") -> click_STRING
          [] field_type \in {Scalar("int"), Scalar("float")} -> _get_numerical_type(field)
          [] field_type = Scalar("bool") -> click_BOOL
          [] field_type = Scalar("UUID") -> click_UUID
          [] field_type = Scalar("Path") -> click_Path
          [] field_type \in {Scalar("datetime"), Scalar("date")} -> click_DateTime
          [] OTHER -> IF field_origin = "Literal" THEN Choice(field_args)
                      ELSE _create_custom_type(field)

\* type_conversion._get_pydanclick_type: the wrapper around the Click type
_get_pydanclick_type(field_type) == [class |-> "PydanclickParamType", actual_type |-> field_type]

\* type_conversion._get_type_from_field
_get_type_from_field(field) ==
    IF IsUserError(_get_click_type_from_field(field)) THEN _get_click_type_from_field(field)
    ELSE _get_pydanclick_type(_get_click_type_from_field(field))

\* the values a parameter type is asked to convert
PydanclickDefault(default) == <<"PydanclickDefault", default>>
PydanclickDefaultCallable(default) == <<"PydanclickDefaultCallable", default>>
Str(s) == <<"str", s>>

\* the strings that are JSON documents
IsJson(s) == s \in {"1", "[]"}

\* int(value) and float(value) of the strings given to the numeric parsers of Click
Numbers == ("0" :> 0) @@ ("1" :> 1) @@ ("3" :> 3) @@ ("5" :> 5) @@ ("10" :> 10)

\* the number a numeric parser of Click reads from a value, or its failure
ParseNumber(v) ==
    CASE v[1] = "val" -> v
      [] v[1] = "str" /\ v[2] \in DOMAIN Numbers -> <<"val", Numbers[v[2]]>>
      [] OTHER -> <<"error", "BadParameter">>

\* the bounds test of click.IntRange and click.FloatRange (clamp is off)
InRange(range_args, n) ==
    LET lt_min == /\ DictHas(range_args, "min")
                  /\ IF DictGet(range_args, "min_open") THEN n <= DictGet(range_args, "min")
                     ELSE n < DictGet(range_args, "min")
        gt_max == /\ DictHas(range_args, "max")
                  /\ IF DictGet(range_args, "max_open") THEN n >= DictGet(range_args, "max")
                     ELSE n > DictGet(range_args, "max")
    IN  ~(lt_min \/ gt_max)

\* the convert method of click.INT, click.FLOAT, click.IntRange and click.FloatRange
NumberConvert(t, v) ==
    LET rv == ParseNumber(v)
    IN  IF rv[1] = "val" /\ ~InRange(t.range, rv[2]) THEN <<"error", "BadParameter">>
        ELSE rv

\* the convert method of the wrapped type: of the custom type of _create_custom_type, of
\* known_types.PydanticStringParam, or of a type of Click
ActualConvert(t, v) ==
    CASE t.class = "custom" ->
           IF v[1] = "str"
           THEN IF IsJson(v[2]) THEN <<"validate_json", t.annotation, v>>
                ELSE <<"error", "BadParameter">>
           ELSE <<"validate_python", t.annotation, v>>
      [] t.class = "PydanticStringParam" -> <<"validate_python", t.annotation, v>>
      [] t.class \in {"IntParamType", "FloatParamType", "IntRange", "FloatRange"} -> NumberConvert(t, v)
      [] OTHER -> <<"click", t.class, v>>

isinstance_PydanclickDefault_never(v) == FALSE

\* isinstance(value, PydanclickDefault)
isinstance_PydanclickDefault(v) == v[1] \in {"PydanclickDefault", "PydanclickDefaultCallable"}

\* type_conversion.PydanclickParamType.convert
convert(t, v) ==
    IF isinstance_PydanclickDefault(v) THEN None
    ELSE ActualConvert(t.actual_type, v)

-----------------------------------------------------------------------------
(* field_conversion, continued *)

\* field_conversion._convert_to_valid_prefix
_convert_to_valid_prefix(name) ==
    IF Len(name) = 0 THEN name ELSE <<"-", "-">> \o strip_option_name(name)

\* the prefixes of the dotted name tried by _get_base_option_name: range(len(parents) + 1, 0, -1)
AliasRange_ascending(n) == [k \in 1..(n + 1) |-> k]

\* range(len(parents) + 1, 0, -1)
AliasRange(n) == [k \in 1..(n + 1) |-> n + 2 - k]

\* parents[:i] and parents[i:]
Take(s, i) == SubSeq(s, 1, IF i > Len(s) THEN Len(s) ELSE i)
Drop(s, i) == SubSeq(s, i + 1, Len(s))

RECURSIVE BaseNameLoop(_, _, _, _)
\* the loop of _get_base_option_name over the remaining range
BaseNameLoop(parents, range, aliases, pfx) ==
    IF Len(range) = 0
    THEN IF Len(pfx) > 0
         THEN snake_case_to_kebab_case(Join(<<pfx>> \o parents, "-"))
         ELSE <<"-", "-">> \o snake_case_to_kebab_case(Join(parents, "."))
    ELSE LET i == range[1]
             parent == Join(Take(parents, i), ".")
             alias == IF DictHas(aliases, parent) THEN DictGet(aliases, parent) ELSE <<>>
             suffix == snake_case_to_kebab_case(Join(Drop(parents, i), "-"))
         IN  IF Len(alias) = 0 THEN BaseNameLoop(parents, Tail(range), aliases, pfx)
             ELSE IF Len(suffix) > 0
                  THEN IF Contains(alias, "/") THEN Error("ValueError")
                       ELSE alias \o <<"-">> \o suffix
                  ELSE alias

\* field_conversion._get_base_option_name
_get_base_option_name(dotted_name, aliases, pfx) ==
    LET parents == Split(dotted_name, ".")
    IN  BaseNameLoop(parents, AliasRange(Len(parents)), aliases, pfx)

get_option_name_base(dotted_name, aliases, is_boolean, pfx) ==
    _get_base_option_name(dotted_name, aliases, pfx)

\* field_conversion.get_option_name
get_option_name(dotted_name, aliases, is_boolean, pfx) ==
    LET base_name == _get_base_option_name(dotted_name, aliases, pfx)
    IN  IF IsError(base_name) THEN base_name
        ELSE IF ~is_boolean \/ Contains(base_name, "/") THEN base_name
        ELSE LET stripped == IF StartsWith(base_name, <<"-", "-">>)
                             THEN SubSeq(base_name, 3, Len(base_name)) ELSE base_name
             IN  <<"-", "-">> \o stripped \o <<"/", "-", "-", "n", "o", "-">> \o stripped

\* field_conversion._get_default_value_from_field
_get_default_value_from_field(field) ==
    IF field.default # "None"
    THEN IF field.default # "Undefined" THEN "PydanclickDefault"
         ELSE IF field.default_factory THEN "PydanclickDefaultCallable"
         ELSE "None"
    ELSE "None"

\* FieldInfo.is_required
is_required(field) == field.default = "Undefined" /\ ~field.default_factory

\* field_conversion._get_option_from_field
_get_option_from_field(argument_name, option_name, field_info, is_multiple) ==
    IF IsUserError(_get_type_from_field(field_info)) THEN _get_type_from_field(field_info)
    ELSE
    [param_decls |-> <<argument_name, option_name>>,
     default |-> IF ~is_multiple THEN _get_default_value_from_field(field_info) ELSE "[]",
     required |-> is_required(field_info),
     multiple |-> is_multiple,
     type |-> _get_type_from_field(field_info)]

\* the argument name of a field: argument_prefix + "_".join(field.parents)
ArgumentNameOf(argument_prefix, field) == argument_prefix \o Join(field.parents, "_")

\* mutant: every PydanticUserError is absorbed when ignore_unsupported is set
IsIgnored_any_code(ignore_unsupported, e) == ignore_unsupported

\* `ignore_unsupported and e.code == "schema-for-unknown-type"`
IsIgnored(ignore_unsupported, e) == ignore_unsupported /\ e.name = schema_for_unknown_type

\* what convert_fields_to_options leaves when an exception goes through it
Raised(error, code) == [error |-> error, code |-> code, qualified_names |-> <<>>, options |-> <<>>]

RECURSIVE ConvertLoop(_, _, _, _, _, _)
\* the loop `for field in fields` of convert_fields_to_options, acc holding qualified_names
\* and options
ConvertLoop(fs, aliases, option_prefix, argument_prefix, ignore_unsupported, acc) ==
    IF Len(fs) = 0 THEN acc
    ELSE LET field == fs[1]
             argument_name == ArgumentNameOf(argument_prefix, field)
             option_name == get_option_name(field.dotted_name, aliases,
                                            is_boolean_flag(field), option_prefix)
             option == _get_option_from_field(argument_name, option_name,
                                              field.field_info, multiple(field))
         IN  IF IsError(option_name) THEN Raised(option_name[2], <<>>)
             ELSE IF IsUserError(option)
             THEN IF IsIgnored(ignore_unsupported, option)
                  THEN ConvertLoop(Tail(fs), aliases, option_prefix, argument_prefix,
                                   ignore_unsupported, acc)
                  ELSE Raised("PydanticUserError", option.name)
             ELSE ConvertLoop(Tail(fs), aliases, option_prefix, argument_prefix,
                     ignore_unsupported,
                     [error |-> "", code |-> <<>>,
                      qualified_names |->
                          DictSet(acc.qualified_names, argument_name, field.dotted_name),
                      options |-> Append(acc.options, option)])

\* field_conversion.convert_fields_to_options; pfx (the prefix) and als (the aliases) are None or a value
convert_fields_to_options(fs, pfx, als, ignore_unsupported) ==
    LET aliases0 == IF als = None THEN <<>> ELSE als
        aliases == [i \in 1..Len(aliases0) |->
                       <<aliases0[i][1], _convert_to_valid_prefix(aliases0[i][2])>>]
        option_prefix == IF pfx # None THEN _convert_to_valid_prefix(pfx) ELSE <<>>
        argument_prefix == IF Len(option_prefix) > 0
                           THEN kebab_case_to_snake_case(strip_option_name(option_prefix))
                                    \o <<"_">>
                           ELSE <<>>
    IN  ConvertLoop(fs, aliases, option_prefix, argument_prefix, ignore_unsupported,
                    [error |-> "", code |-> <<>>, qualified_names |-> <<>>, options |-> <<>>])

\* model_conversion.convert_to_click: the set of unpacked names captured by the validator
UnpackedNamesOf(fs) ==
    {fs[i].unpacked_from : i \in {j \in 1..Len(fs) : fs[j].unpacked_from # None}}

-----------------------------------------------------------------------------
(* validation: from keyword values back to the nested mapping *)

PyDict(pairs) == <<"dict", pairs>>
PyList(items) == <<"list", items>>
IsDict(v) == v[1] = "dict"

\* the order in which a Python set holding the elements of `s` is iterated: it depends on
\* the hashes of the elements, fixed for the life of the process
SetOrder(s) == IF hash_seed = 0 THEN s ELSE [i \in 1..Len(s) |-> s[Len(s) + 1 - i]]

\* mutant: None values are kept
IsKept_always(value) == TRUE

\* whether _parse_options keeps a value: `if value is not None`
IsKept(value) == value # None

\* mutant: the value is read and the key is left in the dict
PopKey_get(kw, key) == kw

\* the dict after `kwargs.pop(key)`
PopKey(kw, key) == DictDel(kw, key)

\* mutant: the keys found in kwargs are taken out of the name-mapping as well
AliasesLeft_popped(aliases, kw) == SelectSeq(aliases, LAMBDA e : ~DictHas(kw, e[1]))

\* the name-mapping as _parse_options leaves it: aliases.keys() & kwargs.keys() builds a new
\* set and aliases[key] reads
AliasesLeft(aliases, kw) == aliases

RECURSIVE ParseLoop(_, _, _)
\* the loop of _parse_options over the remaining keys; acc holds `parsed` and `kwargs`
ParseLoop(keys, aliases, acc) ==
    IF Len(keys) = 0 THEN acc
    ELSE LET key == keys[1]
             value == DictGet(acc.kwargs, key)
         IN  ParseLoop(Tail(keys), aliases,
                 [parsed |-> IF IsKept(value)
                             THEN DictSet(acc.parsed, DictGet(aliases, key), value)
                             ELSE acc.parsed,
                  kwargs |-> PopKey(acc.kwargs, key)])

\* the dict _parse_options starts from: `parsed = {}`
NewParsed == <<>>

\* mutant: the keys whose value is None are not visited
_parse_options_given(aliases, kw) ==
    ParseLoop(SetOrder(SelectSeq(DictKeys(aliases),
                                 LAMBDA k : DictHas(kw, k) /\ DictGet(kw, k) # None)),
              aliases, [parsed |-> NewParsed, kwargs |-> kw])

\* validation._parse_options: returns `parsed` and the dict `kwargs` as it is left
_parse_options(aliases, kw) ==
    ParseLoop(SetOrder(SelectSeq(DictKeys(aliases), LAMBDA k : DictHas(kw, k))),
              aliases, [parsed |-> NewParsed, kwargs |-> kw])

RECURSIVE SetPath(_, _, _)
\* current_dict = current_dict.setdefault(part, {}) along parts[:-1], then
\* current_dict[parts[-1]] = v
SetPath(tree, parts, v) ==
    IF Len(parts) = 1
    THEN IF IsDict(tree) THEN PyDict(DictSet(tree[2], parts[1], v)) ELSE Error("TypeError")
    ELSE IF ~IsDict(tree) THEN Error("AttributeError")
    ELSE LET child == IF DictHas(tree[2], parts[1]) THEN DictGet(tree[2], parts[1])
                      ELSE PyDict(<<>>)
             sub == SetPath(child, Tail(parts), v)
         IN  IF IsError(sub) THEN sub ELSE PyDict(DictSet(tree[2], parts[1], sub))

RECURSIVE UnflattenLoop(_, _)
UnflattenLoop(d, nested) ==
    IF Len(d) = 0 \/ IsError(nested) THEN nested
    ELSE IF Len(d[1][1]) = 0 THEN Error("ValueError")
    ELSE UnflattenLoop(Tail(d), SetPath(nested, Split(d[1][1], "."), d[1][2]))

\* mutant: the keys are not split
_unflatten_dict_unsplit(d) ==
    IF \E i \in 1..Len(d) : Len(d[i][1]) = 0 THEN Error("ValueError") ELSE PyDict(d)

\* validation._unflatten_dict
_unflatten_dict(d) == UnflattenLoop(d, PyDict(<<>>))

\* whether iter(v) succeeds
IsIterable(v) == v[1] \in {"list", "dict", "str"}

\* iter(v): the elements of a sequence, the keys of a dict, the characters of a string
Iterate(v) ==
    CASE v[1] = "list" -> v[2]
      [] v[1] = "dict" -> [i \in 1..Len(v[2]) |-> <<"str", v[2][i][1]>>]
      [] v[1] = "str" -> [i \in 1..Len(v[2]) |-> <<"str", <<v[2][i]>> >>]

Max(S) == IF S = {} THEN 0 ELSE CHOOSE x \in S : \A y \in S : y <= x
Min(S) == IF S = {} THEN 0 ELSE CHOOSE x \in S : \A y \in S : x <= y

\* mutant: zip instead of zip_longest
RowCount_zip(columns) == Min({Len(columns[k]) : k \in 1..Len(columns)})

\* the number of tuples zip_longest yields: the length of the longest column
RowCount(columns) == Max({Len(columns[k]) : k \in 1..Len(columns)})

\* validation._pack_dict
_pack_dict(d) ==
    IF ~IsDict(d) THEN Error("AttributeError")
    ELSE IF \E k \in 1..Len(d[2]) : ~IsIterable(d[2][k][2]) THEN Error("TypeError")
    ELSE LET columns == [k \in 1..Len(d[2]) |-> Iterate(d[2][k][2])]
             cell(i, k) == <<d[2][k][1], columns[k][i]>>
             present(i) == SelectSeq([k \in 1..Len(columns) |-> k],
                                     LAMBDA k : Len(columns[k]) >= i)
             row(i) == PyDict([j \in 1..Len(present(i)) |-> cell(i, present(i)[j])])
         IN  PyList([i \in 1..RowCount(columns) |-> row(i)])

\* the keys of the nested mapping that model_validate_kwargs packs
PackedKeys(unpacked, raw_model) ==
    SetOrder(SelectSeq(DictKeys(raw_model[2]), LAMBDA k : k \in unpacked))

RECURSIVE PackLoop(_, _)
\* the loop `for name in unpacked_names & raw_model.keys()`
PackLoop(names, raw_model) ==
    IF Len(names) = 0 \/ IsError(raw_model) THEN raw_model
    ELSE LET packed == _pack_dict(DictGet(raw_model[2], names[1]))
         IN  IF IsError(packed) THEN packed
             ELSE PackLoop(Tail(names),
                           IF Len(packed[2]) = 0
                           THEN PyDict(DictDel(raw_model[2], names[1]))
                           ELSE PyDict(DictSet(raw_model[2], names[1], packed)))

\* validation.model_validate_kwargs: what is built on the way and what is handed to
\* model.model_validate (or the exception raised before that)
model_validate_kwargs(kw, names, unpacked) ==
    LET po == _parse_options(names, kw)
        raw_model == _unflatten_dict(po.parsed)
    IN  [flat_model |-> po.parsed,
         kwargs |-> po.kwargs,
         qualified_names |-> AliasesLeft(names, kw),
         unpacked_names |-> unpacked,
         nested |-> raw_model,
         submitted |-> IF IsError(raw_model) THEN raw_model
                       ELSE PackLoop(PackedKeys(unpacked, raw_model), raw_model)]

-----------------------------------------------------------------------------
(* Inputs *)

\* exclude=... : sets of dotted names
ExcludeChoices ==
    {{},
     {<<"f", "o", "o">>},
     {<<"b", "a", "r", ".", "b">>},
     {<<"f", "o", "o">>, <<"b", "a", "r", ".", "b">>},
     {<<"f", "o", "o", "s", ".", "a">>},
     {<<"x", ".", "b">>, <<"n">>}}

\* prefix=... : None or a string
PrefixChoices == {None, <<"p">>, <<"-", "-", "p", "-", "q">>}

\* rename=... : None or a dict from dotted names to option names
RenameChoices ==
    {None,
     << <<<<"f", "o", "o">>, <<"-", "-", "o", "o", "f">> >>,
        <<<<"f", "o", "o", ".", "b">>, <<"B">> >> >>,
     << <<<<"f", "o", "o", "s">>, <<"-", "-", "o", "n", "/", "-", "-", "o", "f", "f">> >>,
        <<<<"f", "o", "o", ".", "b">>, <<"-", "-", "y", "/", "-", "-", "n">> >> >>}

\* a key of the keyword dict that belongs to another option of the command
OtherKey == <<"v", "e", "r", "b", "o", "s", "e">>

\* the value Click hands over for the i-th option given cnt times on the command line
ParsedValue(option, i, cnt) ==
    IF option.multiple THEN PyList([j \in 1..cnt |-> <<"val", 10 * i + j>>])
    ELSE IF cnt = 0 THEN None
    ELSE <<"val", 10 * i + 1>>

RECURSIVE KwargsLoop(_, _, _, _)
KwargsLoop(opts, cnt, i, kw) ==
    IF i > Len(opts) THEN kw
    ELSE KwargsLoop(opts, cnt, i + 1,
                    DictSet(kw, opts[i].param_decls[1], ParsedValue(opts[i], i, cnt[i])))

\* the keyword dicts Click may call the command with
KwargsChoices(opts) ==
    {KwargsLoop(opts, cnt, 1, <<<<OtherKey, <<"val", 0>> >> >>) :
        cnt \in {c \in [1..Len(opts) -> 0..MaxOccur] :
                    \A i \in 1..Len(opts) : ~opts[i].multiple => c[i] <= 1}}

-----------------------------------------------------------------------------
(* config: get_config *)

\* a dict with string keys is a function; {**a, **b}
Merge(a, b) ==
    [k \in DOMAIN a \cup DOMAIN b |-> IF k \in DOMAIN b THEN b[k] ELSE a[k]]

Restrict(f, keys) == [k \in keys |-> f[k]]

\* the default values of the fields of PydanclickConfig
PydanclickConfigDefaults ==
    [exclude |-> <<>>, rename |-> "None", shorten |-> "None", prefix |-> "None",
     parse_docstring |-> "True", docstring_style |-> "google", extra_options |-> "None"]

\* PydanclickConfig(**given)
PydanclickConfig(given) ==
    [fields_set |-> DOMAIN given, values |-> Merge(PydanclickConfigDefaults, given)]

\* PydanclickConfig.model_dump(exclude_unset=True)
model_dump(obj) == Restrict(obj.values, obj.fields_set)

\* getattr(model, "__pydanclick__", {}), dumped when it is a PydanclickConfig
default_options_of(attribute) ==
    CASE attribute.kind = "absent" -> <<>>
      [] attribute.kind = "dict" -> attribute.value
      [] attribute.kind = "PydanclickConfig" -> model_dump(attribute.value)

\* _Config.model_validate: exclude becomes a set, rename is the alias of `aliases`
_Config(d) ==
    [exclude |-> IF "exclude" \in DOMAIN d
                 THEN {d.exclude[i] : i \in 1..Len(d.exclude)} ELSE {},
     aliases |-> IF "rename" \in DOMAIN d THEN d.rename ELSE "None",
     shorten |-> IF "shorten" \in DOMAIN d THEN d.shorten ELSE "None",
     prefix |-> IF "prefix" \in DOMAIN d THEN d.prefix ELSE "None",
     parse_docstring |-> IF "parse_docstring" \in DOMAIN d THEN d.parse_docstring ELSE "True",
     docstring_style |-> IF "docstring_style" \in DOMAIN d THEN d.docstring_style
                         ELSE "google",
     extra_options |-> IF "extra_options" \in DOMAIN d THEN d.extra_options ELSE "None"]

\* the keys get_config takes from its arguments when they are not None
NoneIsDefault == {"rename", "shorten", "prefix", "parse_docstring", "extra_options"}

\* config.get_config
get_config(attribute, args) ==
    LET default_options == default_options_of(attribute)
        not_none == Restrict(args, {k \in NoneIsDefault : args[k] # "None"})
        with_exclude == IF args.exclude # <<>>
                        THEN Merge(not_none, [exclude |-> args.exclude]) ELSE not_none
        overriding_options ==
            IF "docstring_style" \notin DOMAIN default_options
            THEN Merge(with_exclude, [docstring_style |-> args.docstring_style])
            ELSE with_exclude
    IN  _Config(Merge(default_options, overriding_options))

-----------------------------------------------------------------------------
(* Actions *)

\* no call of get_config in this behaviour
ConfigIdle ==
    /\ cfg_pc = "idle"
    /\ schema_options = [kind |-> "absent"]
    /\ call_options = <<>>
    /\ config = <<>>

\* no use of the type mapper outside convert_to_click in this behaviour
TypesIdle ==
    /\ tpc = "idle"
    /\ TYPES_NAMES = DefaultTypesNames
    /\ mapped_field = <<>>
    /\ types_names_then = <<>>
    /\ click_type = <<>>
    /\ raw_value = None
    /\ convert_result = None

\* no conversion of a model in this behaviour
PipelineIdle ==
    /\ pc = "idle"
    /\ model = "Foo"
    /\ unpack_list = FALSE
    /\ exclude = {}
    /\ prefix = None
    /\ rename = None
    /\ hash_seed = 0
    /\ fields = <<>>
    /\ qualified_names = <<>>
    /\ options = <<>>
    /\ unpacked_names = {}
    /\ kwargs = <<>>
    /\ used = FALSE
    /\ calls = <<>>

\* no call of _unflatten_dict outside the validator in this behaviour
UnflattenIdle ==
    /\ upc = "idle"
    /\ flat_dict = <<>>
    /\ unflattened = None

\* no use of main.from_pydantic in this behaviour
MainIdle ==
    /\ mpc = "idle"
    /\ main_model = "Foo"
    /\ main_var = <<>>
    /\ main_exclude = {}
    /\ main_fields = <<>>
    /\ wrapped_kwargs = <<>>
    /\ handler_kwargs = None

\* no call of convert_fields_to_options outside convert_to_click in this behaviour
FieldsIdle ==
    /\ fpc = "idle"
    /\ conv_fields = <<>>
    /\ conv_prefix = None
    /\ conv_aliases = None
    /\ conv_ignore_unsupported = FALSE
    /\ conv_result = None

ExtraIdle == UnflattenIdle /\ MainIdle /\ FieldsIdle

Init ==
    /\ pc = "start"
    /\ model \in ModelNames
    /\ unpack_list \in BOOLEAN
    /\ exclude \in ExcludeChoices
    /\ prefix \in PrefixChoices
    /\ rename \in RenameChoices
    /\ hash_seed \in {0, 1}
    /\ fields = <<>>
    /\ qualified_names = <<>>
    /\ options = <<>>
    /\ unpacked_names = {}
    /\ kwargs = <<>>
    /\ used = FALSE
    /\ calls = <<>>
    /\ ConfigIdle
    /\ TypesIdle
    /\ ExtraIdle

\* model_conversion.convert_to_click
ConvertToClick ==
    /\ pc = "start"
    /\ LET fs == collect_fields(model, exclude, unpack_list)
           converted == convert_fields_to_options(fs, prefix, rename, FALSE)
       IN  /\ fields' = fs
           /\ qualified_names' = converted.qualified_names
           /\ options' = converted.options
           /\ unpacked_names' = IF converted.error = "" THEN UnpackedNamesOf(fs) ELSE {}
           /\ pc' = IF converted.error = "" THEN "decorated" ELSE converted.error
    /\ UNCHANGED <<model, unpack_list, exclude, prefix, rename, hash_seed, kwargs, used, calls>>
    /\ UNCHANGED <<config_vars, type_vars, extra_vars>>

\* Click parses a command line and calls the command with a new keyword dict
Invoke ==
    /\ pc = "decorated"
    /\ \E kw \in KwargsChoices(options) : kwargs' = kw
    /\ used' = FALSE
    /\ pc' = "invoked"
    /\ UNCHANGED <<model, unpack_list, exclude, prefix, rename, hash_seed, fields,
                   qualified_names, options, unpacked_names, calls>>
    /\ UNCHANGED <<config_vars, type_vars, extra_vars>>

\* the validator returned by convert_to_click is called with the dict `kwargs`
Validate ==
    /\ pc \in {"invoked", "validated"}
    /\ Len(calls) < MaxCalls
    /\ LET r == model_validate_kwargs(kwargs, qualified_names, unpacked_names)
       IN  /\ calls' = Append(calls, [input |-> kwargs, reused |-> used,
                                      flat_model |-> r.flat_model, nested |-> r.nested,
                                      submitted |-> r.submitted, kwargs |-> r.kwargs])
           /\ kwargs' = r.kwargs
           /\ qualified_names' = r.qualified_names
           /\ unpacked_names' = r.unpacked_names
    /\ used' = TRUE
    /\ pc' = "validated"
    /\ UNCHANGED <<model, unpack_list, exclude, prefix, rename, hash_seed, fields, options>>
    /\ UNCHANGED <<config_vars, type_vars, extra_vars>>

\* the caller builds a new dict equal to the one it passed to the first call
CopyInput ==
    /\ pc = "validated"
    /\ used
    /\ Len(calls) < MaxCalls
    /\ kwargs' = calls[1].input
    /\ used' = FALSE
    /\ pc' = "invoked"
    /\ UNCHANGED <<model, unpack_list, exclude, prefix, rename, hash_seed, fields,
                   qualified_names, options, unpacked_names, calls>>
    /\ UNCHANGED <<config_vars, type_vars, extra_vars>>

Next == ConvertToClick \/ Invoke \/ Validate \/ CopyInput

Spec == Init /\ [][Next]_vars

TypeOK ==
    /\ pc \in {"idle", "start", "decorated", "ValueError", "invoked", "validated"}
    /\ cfg_pc \in {"idle", "start", "done"}
    /\ tpc \in {"idle", "start", "typed", "converted"}
    /\ Len(calls) <= MaxCalls

-----------------------------------------------------------------------------
(* get_config on its own *)

\* what a model declares as __pydanclick__: nothing, a dict or a PydanclickConfig;
\* SchemaValues holds the values it may set, and a key may also be left out
SchemaOptionsChoices ==
    LET SchemaValues ==
            [exclude |-> <<"a">>, rename |-> "model_rename", shorten |-> "model_shorten",
             prefix |-> "model_prefix", parse_docstring |-> "False",
             docstring_style |-> "sphinx", extra_options |-> "model_extra"]
    IN  {[kind |-> "absent"]}
            \cup {[kind |-> "dict", value |-> Restrict(SchemaValues, keys)] :
                     keys \in SUBSET DOMAIN SchemaValues}
            \cup {[kind |-> "PydanclickConfig",
                   value |-> PydanclickConfig(Restrict(SchemaValues, keys))] :
                     keys \in SUBSET DOMAIN SchemaValues}

\* the keyword arguments of get_config: the default of the signature or another value
CallOptionsChoices ==
    {[exclude |-> e, rename |-> r, shorten |-> s, prefix |-> p, parse_docstring |-> d,
      docstring_style |-> y, extra_options |-> x] :
        e \in {<<>>, <<"b">>}, r \in {"None", "call_rename"}, s \in {"None", "call_shorten"},
        p \in {"None", "call_prefix"}, d \in {"None", "True", "False"},
        y \in {"google", "numpy"}, x \in {"None", "call_extra"}}

InitConfig ==
    /\ PipelineIdle
    /\ TypesIdle
    /\ ExtraIdle
    /\ cfg_pc = "start"
    /\ schema_options \in SchemaOptionsChoices
    /\ call_options = <<>>
    /\ config = <<>>

\* config.get_config(model, **call_options)
GetConfig ==
    /\ cfg_pc = "start"
    /\ \E args \in CallOptionsChoices :
          /\ call_options' = args
          /\ config' = get_config(schema_options, args)
    /\ cfg_pc' = "done"
    /\ UNCHANGED <<schema_options, pipeline_vars, type_vars, extra_vars>>

NextConfig == GetConfig

SpecConfig == InitConfig /\ [][NextConfig]_vars

-----------------------------------------------------------------------------
(* the type mapper on its own *)

\* the types and names given to register_pydanclick_string_type
RegistrableTypes ==
    {[name |-> "Color", __name__ |-> <<"C", "o", "l", "o", "r">>],
     [name |-> "MacAddress", __name__ |-> <<"M", "a", "c", "A", "d", "d", "r", "e", "s", "s">>]}
RegisteredNames == {None, <<"m", "a", "c">>}

Optional(t) == UnionOf(<<t, NoneType>>)

AnnotationChoices ==
    {Scalar("str"), Scalar("int"), Scalar("float"), Scalar("bool"), Scalar("UUID"),
     Scalar("Path"), Scalar("datetime"), Scalar("date"), LiteralOf(<<LiteralValue("a"), LiteralValue("b")>>),
     Scalar("SecretStr"), Scalar("IPv4Address"), Scalar("Color"), Scalar("MacAddress"),
     ListOf(Scalar("str")),
     Optional(Scalar("int")), Optional(Scalar("str")), Optional(Scalar("float")),
     Optional(Scalar("SecretStr")), Optional(Scalar("Color")),
     UnionOf(<<NoneType, Scalar("int")>>),
     UnionOf(<<Scalar("int"), Scalar("str")>>),
     UnionOf(<<Scalar("int"), Scalar("str"), NoneType>>)}

Constraint(kind, bound) == [kind |-> kind, bound |-> bound]

MetadataChoices ==
    {<<>>, <<Constraint("Ge", 0)>>, <<Constraint("Gt", 0), Constraint("Lt", 10)>>,
     <<Constraint("Ge", 0), Constraint("Le", 10)>>,
     <<Constraint("Ge", 5), Constraint("Gt", 0)>>}

\* the fields given to the type mapper: every annotation with every kind of default, the
\* annotations that take numerical constraints with every list of constraints
FieldInfoChoices ==
    LET ConstrainedAnnotations ==
            {Scalar("int"), Scalar("float"), Optional(Scalar("int")), Optional(Scalar("float"))}
        DefaultChoices ==
            {<<"Undefined", FALSE>>, <<"Undefined", TRUE>>, <<"None", FALSE>>, <<"value", FALSE>>}
    IN  {FieldInfo(a, d[1], d[2], <<>>) : a \in AnnotationChoices, d \in DefaultChoices}
            \cup {FieldInfo(a, d[1], d[2], m) :
                     a \in ConstrainedAnnotations, d \in DefaultChoices, m \in MetadataChoices}

\* the values given to convert: the wrapped default of the option, or what the user typed
RawValueChoices ==
    {PydanclickDefault("1"), PydanclickDefaultCallable("list"), Str("1"), Str("my-secret"),
     <<"val", 1>>, Str("0"), Str("3"), Str("5"), Str("10")}

InitTypes ==
    /\ PipelineIdle
    /\ ConfigIdle
    /\ ExtraIdle
    /\ tpc = "start"
    /\ TYPES_NAMES = DefaultTypesNames
    /\ mapped_field = <<>>
    /\ types_names_then = <<>>
    /\ click_type = <<>>
    /\ raw_value = None
    /\ convert_result = None

\* known_types.register_pydanclick_string_type(new_type, name)
Register ==
    /\ tpc # "idle"
    /\ \E new_type \in RegistrableTypes, name \in RegisteredNames :
          TYPES_NAMES' = register_pydanclick_string_type(TYPES_NAMES, new_type, name)
    /\ UNCHANGED <<tpc, mapped_field, types_names_then, click_type, raw_value, convert_result>>
    /\ UNCHANGED <<pipeline_vars, config_vars, extra_vars>>

\* type_conversion._get_type_from_field(field)
GetTypeFromField ==
    /\ tpc = "start"
    /\ \E field \in FieldInfoChoices :
          /\ mapped_field' = field
          /\ click_type' = _get_type_from_field(field)
    /\ types_names_then' = TYPES_NAMES
    /\ tpc' = "typed"
    /\ UNCHANGED <<TYPES_NAMES, raw_value, convert_result>>
    /\ UNCHANGED <<pipeline_vars, config_vars, extra_vars>>

\* click_type.convert(value, param, ctx)
Convert ==
    /\ tpc = "typed"
    /\ \E v \in RawValueChoices :
          /\ raw_value' = v
          /\ convert_result' = convert(click_type, v)
    /\ tpc' = "converted"
    /\ UNCHANGED <<TYPES_NAMES, mapped_field, types_names_then, click_type>>
    /\ UNCHANGED <<pipeline_vars, config_vars, extra_vars>>

NextTypes == Register \/ GetTypeFromField \/ Convert

SpecTypes == InitTypes /\ [][NextTypes]_vars

-----------------------------------------------------------------------------
(* _unflatten_dict on its own *)

\* the keys of the flat dicts: dotted names, and the empty string
FlatKeys ==
    <<<<>>, <<"a">>, <<"a", ".", "b">>, <<"a", ".", "c">>, <<"b">>,
      <<"a", ".", "b", ".", "c">>>>

\* the value stored under the k-th key
FlatValue(k) == <<"val", k>>

\* the longest flat dict given to _unflatten_dict
MaxKeys == 3

\* the dicts with up to MaxKeys of these keys, in every insertion order
FlatDictChoices ==
    {[i \in 1..n |-> <<FlatKeys[ks[i]], FlatValue(ks[i])>>] :
        n \in 0..MaxKeys, ks \in [1..MaxKeys -> 1..Len(FlatKeys)]}

InitUnflatten ==
    /\ PipelineIdle
    /\ ConfigIdle
    /\ TypesIdle
    /\ MainIdle
    /\ FieldsIdle
    /\ upc = "start"
    /\ flat_dict \in {d \in FlatDictChoices :
                         \A i, j \in 1..Len(d) : i # j => d[i][1] # d[j][1]}
    /\ unflattened = None

\* validation._unflatten_dict(flat_dict)
Unflatten ==
    /\ upc = "start"
    /\ unflattened' = _unflatten_dict(flat_dict)
    /\ upc' = "done"
    /\ UNCHANGED <<flat_dict, pipeline_vars, config_vars, type_vars, main_vars, fields_vars>>

NextUnflatten == Unflatten

SpecUnflatten == InitUnflatten /\ [][NextUnflatten]_vars

-----------------------------------------------------------------------------
(* main.from_pydantic on its own *)

\* the names of the fields of the model that are not excluded, in declaration order
FieldsOfMain(m, excluded_fields) ==
    SelectSeq([i \in 1..Len(model_fields(m)) |-> model_fields(m)[i].name],
              LAMBDA field_name : field_name \notin excluded_fields)

\* model.model_validate(raw_model): the instance built from raw_model, or ValidationError
\* when a required field is missing
model_validate(m, raw_model) ==
    IF \E i \in 1..Len(model_fields(m)) :
           is_required(model_fields(m)[i].info) /\ ~DictHas(raw_model, model_fields(m)[i].name)
    THEN Error("ValidationError")
    ELSE <<"instance", m, raw_model>>

\* mutant: the value is read and the key stays
PopField_get(kw, field) == kw

\* kwargs after kwargs.pop(field)
PopField(kw, field) == DictDel(kw, field)

RECURSIVE WrappedLoop(_, _)
\* {field: kwargs.pop(field) for field in fields if field in kwargs}; acc holds raw_model
\* and kwargs
WrappedLoop(flds, acc) ==
    IF Len(flds) = 0 THEN acc
    ELSE WrappedLoop(Tail(flds),
             IF DictHas(acc.kwargs, flds[1])
             THEN [raw_model |-> DictSet(acc.raw_model, flds[1], DictGet(acc.kwargs, flds[1])),
                   kwargs |-> PopField(acc.kwargs, flds[1])]
             ELSE acc)

\* the function `wrapped` of from_pydantic: the keywords f is called with, or the
\* exception of model_validate
wrapped(kw, flds, var, m) ==
    LET popped == WrappedLoop(flds, [raw_model |-> <<>>, kwargs |-> kw])
        instance == model_validate(m, popped.raw_model)
    IN  IF IsError(instance) THEN instance
        ELSE PyDict(DictSet(popped.kwargs, var, instance))

RECURSIVE MainKwargsLoop(_, _, _, _)
MainKwargsLoop(names, given, i, kw) ==
    IF i > Len(names) THEN kw
    ELSE MainKwargsLoop(names, given, i + 1,
                        IF given[i] THEN DictSet(kw, names[i], <<"val", i>>) ELSE kw)

\* the keywords Click calls the decorated handler with: the value of another option of the
\* command, or none, and values for some of the options of the model
MainKwargsChoices(flds) ==
    {MainKwargsLoop(flds, given, 1, first) :
        given \in [1..Len(flds) -> BOOLEAN],
        first \in {<<>>, <<<<OtherKey, <<"val", 0>> >> >>}}

InitMain ==
    /\ PipelineIdle
    /\ ConfigIdle
    /\ TypesIdle
    /\ UnflattenIdle
    /\ FieldsIdle
    /\ mpc = "start"
    /\ main_model \in {"Foo", "Bar", "Obj", "Maybe", "Flat"}
    /\ main_var \in {<<"c", "o", "n", "f", "i", "g">>, <<"f", "o", "o">>, OtherKey}
    /\ main_exclude \in {{}, {<<"a">>}, {<<"b">>, <<"f", "o", "o">>}}
    /\ main_fields = <<>>
    /\ wrapped_kwargs = <<>>
    /\ handler_kwargs = None

\* main.from_pydantic(main_var, main_model, exclude=main_exclude)(f)
FromPydantic ==
    /\ mpc = "start"
    /\ main_fields' = FieldsOfMain(main_model, main_exclude)
    /\ mpc' = "decorated"
    /\ UNCHANGED <<main_model, main_var, main_exclude, wrapped_kwargs, handler_kwargs>>
    /\ UNCHANGED <<pipeline_vars, config_vars, type_vars, unflatten_vars, fields_vars>>

\* Click calls the decorated handler: wrapped(**kw)
Wrapped ==
    /\ mpc \in {"decorated", "called"}
    /\ \E kw \in MainKwargsChoices(main_fields) :
          /\ wrapped_kwargs' = kw
          /\ handler_kwargs' = wrapped(kw, main_fields, main_var, main_model)
    /\ mpc' = "called"
    /\ UNCHANGED <<main_model, main_var, main_exclude, main_fields>>
    /\ UNCHANGED <<pipeline_vars, config_vars, type_vars, unflatten_vars, fields_vars>>

NextMain == FromPydantic \/ Wrapped

SpecMain == InitMain /\ [][NextMain]_vars

-----------------------------------------------------------------------------
(* convert_fields_to_options on its own *)

\* the lists of fields given to convert_fields_to_options: the fields of six models, three
\* of them with fields of a type the schema engine has no schema for
FieldsChoices ==
    {collect_fields(m, {}, unpack) :
        m \in {"Foo", "Obj", "Foos", "Odd", "Odds", "Typed"}, unpack \in BOOLEAN}

InitFields ==
    /\ PipelineIdle
    /\ ConfigIdle
    /\ TypesIdle
    /\ UnflattenIdle
    /\ MainIdle
    /\ fpc = "start"
    /\ conv_fields \in FieldsChoices
    /\ conv_prefix \in PrefixChoices
    /\ conv_aliases \in RenameChoices
    /\ conv_ignore_unsupported \in BOOLEAN
    /\ conv_result = None

\* convert_fields_to_options(conv_fields, prefix=conv_prefix, aliases=conv_aliases,
\*                           ignore_unsupported=conv_ignore_unsupported)
ConvertFields ==
    /\ fpc = "start"
    /\ conv_result' = convert_fields_to_options(conv_fields, conv_prefix, conv_aliases,
                                                conv_ignore_unsupported)
    /\ fpc' = "returned"
    /\ UNCHANGED <<conv_fields, conv_prefix, conv_aliases, conv_ignore_unsupported>>
    /\ UNCHANGED <<pipeline_vars, config_vars, type_vars, unflatten_vars, main_vars>>

NextFields == ConvertFields

SpecFields == InitFields /\ [][NextFields]_vars

-----------------------------------------------------------------------------
(* Helpers of the properties *)

\* the state after convert_to_click returned or raised
Converted == pc # "start"

\* the dotted names of a list of fields, in order
DottedNames(fs) == [i \in 1..Len(fs) |-> fs[i].dotted_name]

\* the parents of a list of fields, in order
ParentsOf(fs) == [i \in 1..Len(fs) |-> fs[i].parents]

\* the fields below the path `path`, in order
Below(fs, path) ==
    SelectSeq(fs, LAMBDA d : Len(d.parents) >= Len(path) /\ SubSeq(d.parents, 1, Len(path)) = path)

\* the position of the field called `name` in the declaration of model m
DeclIndex(m, name) == CHOOSE i \in 1..Len(model_fields(m)) : model_fields(m)[i].name = name

\* the path `path` is `p` or lies below `p` (p is a dot-delimited prefix of path)
DotPrefix(p, path) == Len(p) <= Len(path) /\ SubSeq(path, 1, Len(p)) = p

-----------------------------------------------------------------------------
(* C1 *)

\* C1: the dotted names of the fields returned by one collect_fields call are pairwise
\* distinct, also when a field is a union of several models or an optional model.
C1_DottedNamesDistinct ==
    Converted =>
        \A i, j \in 1..Len(fields) : i # j => fields[i].dotted_name # fields[j].dotted_name

-----------------------------------------------------------------------------
(* C2 *)

\* C2 as stated: every invocation of the validator with the same keyword mapping, be it the
\* same dict again or a copy of it, sees the same input and returns the same result.
C2_SameMappingSameResult ==
    \A i \in 1..Len(calls) :
        /\ calls[i].input = calls[1].input
        /\ calls[i].submitted = calls[1].submitted

\* C2 amended: invocations that are each given their own dict holding the same keyword
\* mapping return equal results; the dict given to an invocation loses the keys of the
\* name-mapping, so that an invocation on a dict that was already used finds none of them
\* and assembles the empty mapping.
C2_OwnCopySameResult ==
    /\ \A i, j \in 1..Len(calls) :
          (~calls[i].reused /\ ~calls[j].reused)
              => /\ calls[i].input = calls[j].input
                 /\ calls[i].flat_model = calls[j].flat_model
                 /\ calls[i].submitted = calls[j].submitted
    /\ \A i \in 1..Len(calls) :
          calls[i].reused => calls[i].flat_model = <<>> /\ calls[i].submitted = PyDict(<<>>)

\* two invocations on two equal dicts, the first of which assembled something
C2_Witness ==
    /\ Len(calls) = 2
    /\ ~calls[2].reused
    /\ calls[1].flat_model # <<>>
    /\ calls[2].input = calls[1].input

-----------------------------------------------------------------------------
(* C3 *)

\* C3: the argument names computed for the collected fields are pairwise distinct, so the
\* name-mapping has one entry per emitted option.
C3_ArgumentNamesDistinct ==
    pc = "decorated" =>
        /\ \A i, j \in 1..Len(options) :
              i # j => options[i].param_decls[1] # options[j].param_decls[1]
        /\ Len(qualified_names) = Len(options)

-----------------------------------------------------------------------------
(* C4 *)

\* C4: without exclusions the fields come in declaration order, depth first: the fields of
\* the model are grouped by its declared fields in declaration order, and the group of a
\* field whose type is a model T is what collect_fields returns for T, in that order, below
\* the name of the field.
C4_DeclarationOrder ==
    (Converted /\ exclude = {}) =>
        /\ \A i, j \in 1..Len(fields) :
              i < j => DeclIndex(model, fields[i].parents[1]) <= DeclIndex(model, fields[j].parents[1])
        /\ \A k \in 1..Len(model_fields(model)) :
              LET f == model_fields(model)[k]
                  group == ParentsOf(Below(fields, <<f.name>>))
              IN  _is_pydantic_model(f.info.annotation) =>
                      [i \in 1..Len(group) |-> Tail(group[i])]
                          = ParentsOf(collect_fields(f.info.annotation.name, {}, unpack_list))

\* Obj{foo: Foo, bar: Bar{baz: Baz}} yields foo.a, foo.b, bar.a, bar.b, bar.baz.c
C4_Witness ==
    /\ Converted
    /\ model = "Obj"
    /\ exclude = {}
    /\ DottedNames(fields) =
          << <<"f", "o", "o", ".", "a">>, <<"f", "o", "o", ".", "b">>,
             <<"b", "a", "r", ".", "a">>, <<"b", "a", "r", ".", "b">>,
             <<"b", "a", "r", ".", "b", "a", "z", ".", "c">> >>

-----------------------------------------------------------------------------
(* C5 *)

\* C5: collect_fields drops exactly the fields whose path is an excluded path or lies below
\* one, and keeps the others in their order.
C5_ExcludeExactly ==
    Converted =>
        fields = SelectSeq(collect_fields(model, {}, unpack_list),
                           LAMBDA d : ~\E p \in exclude : DotPrefix(Split(p, "."), d.parents))

\* excluding bar.b drops bar.b and keeps bar.baz.c
C5_Witness ==
    /\ Converted
    /\ <<"b", "a", "r", ".", "b">> \in exclude
    /\ \E i \in 1..Len(fields) :
          fields[i].dotted_name = <<"b", "a", "r", ".", "b", "a", "z", ".", "c">>
    /\ \E i \in 1..Len(collect_fields(model, {}, unpack_list)) :
          collect_fields(model, {}, unpack_list)[i].dotted_name = <<"b", "a", "r", ".", "b">>
    /\ \A i \in 1..Len(fields) : fields[i].dotted_name # <<"b", "a", "r", ".", "b">>

-----------------------------------------------------------------------------
(* C6 *)

IsListOfModel(annotation) ==
    annotation.origin = "list" /\ Len(annotation.args) = 1 /\ _is_pydantic_model(annotation.args[1])

RECURSIVE DeclaredFields(_, _, _, _)
\* the declared fields that are not themselves of a model type, with their paths, reached
\* from field i of model m on through fields of a model type and, if `intoLists`, through
\* the item model of the list fields as well
DeclaredFields(m, i, parents, intoLists) ==
    IF i > Len(model_fields(m)) THEN <<>>
    ELSE LET f == model_fields(m)[i]
             path == Append(parents, f.name)
             here == IF _is_pydantic_model(f.info.annotation)
                     THEN DeclaredFields(f.info.annotation.name, 1, path, intoLists)
                     ELSE <<[path |-> path, info |-> f.info]>>
                              \o (IF intoLists /\ IsListOfModel(f.info.annotation)
                                  THEN DeclaredFields(f.info.annotation.args[1].name, 1,
                                                      path, intoLists)
                                  ELSE <<>>)
         IN  here \o DeclaredFields(m, i + 1, parents, intoLists)

\* what C6 says of the list field e: expanded into the fields of its item model, each
\* marked with the dotted name of e, or returned as one unmarked field
ListFieldAsClaimed(e) ==
    LET below == Below(fields, e.path)
    IN  IF unpack_list /\ IsListOfModel(e.info.annotation)
        THEN LET items == collect_fields(e.info.annotation.args[1].name, {}, FALSE)
             IN  /\ Len(below) = Len(items)
                 /\ \A i \in 1..Len(below) :
                       /\ below[i].parents = e.path \o items[i].parents
                       /\ below[i].field_info = items[i].field_info
                       /\ below[i].unpacked_from = Join(e.path, ".")
                       /\ multiple(below[i])
        ELSE /\ Len(below) = 1
             /\ below[1].parents = e.path
             /\ below[1].field_info = e.info
             /\ below[1].unpacked_from = None

ListFieldsAsClaimed(entries) ==
    \A k \in 1..Len(entries) :
        entries[k].info.annotation.origin = "list" => ListFieldAsClaimed(entries[k])

\* C6 as stated: every list field of the collected models is expanded when unpack_list is
\* set and its items are of one model, and is one unmarked field otherwise, the list fields
\* of the item model of an expanded list included.
C6_EveryListField ==
    (Converted /\ exclude = {}) =>
        ListFieldsAsClaimed(DeclaredFields(model, 1, <<>>, unpack_list))

\* C6 amended: the same for the list fields that are not inside the item model of an
\* expanded list; the fields of the item model are collected with unpacking off.
C6_ListFieldOutsideUnpackedList ==
    (Converted /\ exclude = {}) =>
        ListFieldsAsClaimed(DeclaredFields(model, 1, <<>>, FALSE))

\* Foos{foos: list[Foo]} with unpack_list yields foos.a and foos.b marked with foos
C6_Witness ==
    /\ Converted
    /\ model = "Foos"
    /\ unpack_list
    /\ exclude = {}
    /\ Len(fields) = 2
    /\ \A i \in 1..Len(fields) : fields[i].unpacked_from = <<"f", "o", "o", "s">>

-----------------------------------------------------------------------------
(* C7, C8, C9 *)

RECURSIVE HasPath(_, _)
\* the nested mapping has a value at the path `parts`
HasPath(tree, parts) ==
    /\ IsDict(tree)
    /\ DictHas(tree[2], parts[1])
    /\ Len(parts) > 1 => HasPath(DictGet(tree[2], parts[1]), Tail(parts))

RECURSIVE GetPath(_, _)
GetPath(tree, parts) ==
    IF Len(parts) = 1 THEN DictGet(tree[2], parts[1])
    ELSE GetPath(DictGet(tree[2], parts[1]), Tail(parts))

\* the invocations in which a nested mapping was built and handed to model_validate
Submitted(c) == ~IsError(c.nested) /\ ~IsError(c.submitted)

\* the value at path p is a mapping of columns
IsColumns(tree, p) ==
    /\ HasPath(tree, p)
    /\ IsDict(GetPath(tree, p))
    /\ \A k \in 1..Len(GetPath(tree, p)[2]) : GetPath(tree, p)[2][k][2][1] = "list"

\* C7: for every unpacked dotted name, at any depth, the mapping of columns found at that
\* path is replaced by the list of rows before validation.
C7_UnpackedPathsPacked ==
    \A n \in 1..Len(calls) : Submitted(calls[n]) =>
        \A u \in unpacked_names :
            LET p == Split(u, ".")
            IN  IsColumns(calls[n].nested, p) =>
                    LET rows == _pack_dict(GetPath(calls[n].nested, p))
                    IN  \/ rows[2] = <<>> /\ ~HasPath(calls[n].submitted, p)
                        \/ /\ HasPath(calls[n].submitted, p)
                           /\ GetPath(calls[n].submitted, p) = rows

IndexOf(seq, x) == CHOOSE i \in 1..Len(seq) : seq[i] = x

\* the rows handed to model_validate for the top-level name u
RowsAt(c, u) == IF DictHas(c.submitted[2], u) THEN DictGet(c.submitted[2], u)[2] ELSE <<>>

\* `rows` is the transposition of the columns of d
IsTransposed(d, rows) ==
    /\ \A k \in 1..Len(d) : Len(d[k][2][2]) <= Len(rows)
    /\ Len(rows) > 0 => \E k \in 1..Len(d) : Len(d[k][2][2]) = Len(rows)
    /\ \A i \in 1..Len(rows) :
          /\ \A k \in 1..Len(d) :
                /\ DictHas(rows[i][2], d[k][1]) <=> Len(d[k][2][2]) >= i
                /\ Len(d[k][2][2]) >= i => DictGet(rows[i][2], d[k][1]) = d[k][2][2][i]
          /\ \A j \in 1..Len(rows[i][2]) : DictHas(d, rows[i][2][j][1])
          /\ \A j1, j2 \in 1..Len(rows[i][2]) :
                j1 < j2 => IndexOf(DictKeys(d), rows[i][2][j1][1])
                               < IndexOf(DictKeys(d), rows[i][2][j2][1])

\* C8: _pack_dict turns a mapping of columns into rows: as many rows as the longest column
\* has elements, row i holding key k with the i-th element of column k exactly when that
\* column has an i-th element, the keys of a row in the order of the columns.
C8_PackDictTransposes ==
    \A n \in 1..Len(calls) : Submitted(calls[n]) =>
        \A u \in unpacked_names :
            (Len(Split(u, ".")) = 1 /\ IsColumns(calls[n].nested, <<u>>)) =>
                IsTransposed(DictGet(calls[n].nested[2], u)[2], RowsAt(calls[n], u))

\* two columns of lengths 2 and 1 were packed into two rows, the second with one key
C8_Witness ==
    \E n \in 1..Len(calls) : Submitted(calls[n]) /\
        \E u \in unpacked_names :
            /\ Len(Split(u, ".")) = 1
            /\ IsColumns(calls[n].nested, <<u>>)
            /\ LET d == DictGet(calls[n].nested[2], u)[2]
                   rows == RowsAt(calls[n], u)
               IN  /\ Len(d) = 2
                   /\ Len(d[1][2][2]) = 2
                   /\ Len(d[2][2][2]) = 1
                   /\ Len(rows) = 2
                   /\ Len(rows[1][2]) = 2
                   /\ Len(rows[2][2]) = 1

\* C9: when every column of an unpacked path is empty, the key of that path is removed from
\* the nested mapping before validation.
C9_EmptyUnpackedPathRemoved ==
    \A n \in 1..Len(calls) : Submitted(calls[n]) =>
        \A u \in unpacked_names :
            LET p == Split(u, ".")
            IN  (/\ IsColumns(calls[n].nested, p)
                 /\ \A k \in 1..Len(GetPath(calls[n].nested, p)[2]) :
                       GetPath(calls[n].nested, p)[2][k][2][2] = <<>>)
                    => ~HasPath(calls[n].submitted, p)

-----------------------------------------------------------------------------
(* C10 *)

RECURSIVE HasNone(_)
\* None occurs in the value
HasNone(v) ==
    \/ v = None
    \/ Len(v) = 2 /\ v[1] = "dict" /\ \E k \in 1..Len(v[2]) : HasNone(v[2][k][2])
    \/ Len(v) = 2 /\ v[1] = "list" /\ \E k \in 1..Len(v[2]) : HasNone(v[2][k])

\* C10: the flat mapping holds dotted name d with value v exactly when some argument name
\* is a key of the keyword dict and of the name-mapping, is mapped to d, and has the value
\* v, which is not None; no None reaches the mapping handed to model_validate.
C10_FlatMapping ==
    \A n \in 1..Len(calls) :
        LET flat == calls[n].flat_model
            inp == calls[n].input
        IN  /\ \A i \in 1..Len(flat) :
                  \E a \in 1..Len(qualified_names) :
                      /\ DictHas(inp, qualified_names[a][1])
                      /\ qualified_names[a][2] = flat[i][1]
                      /\ DictGet(inp, qualified_names[a][1]) = flat[i][2]
                      /\ flat[i][2] # None
            /\ \A a \in 1..Len(qualified_names) :
                  (/\ DictHas(inp, qualified_names[a][1])
                   /\ DictGet(inp, qualified_names[a][1]) # None)
                      => /\ DictHas(flat, qualified_names[a][2])
                         /\ DictGet(flat, qualified_names[a][2])
                                = DictGet(inp, qualified_names[a][1])
            /\ \A i, j \in 1..Len(flat) : i # j => flat[i][1] # flat[j][1]
            /\ ~HasNone(calls[n].submitted)

\* an invocation whose keyword dict held None for one argument and a value for another
C10_Witness ==
    \E n \in 1..Len(calls) :
        /\ ~calls[n].reused
        /\ calls[n].flat_model # <<>>
        /\ \E a \in 1..Len(qualified_names) :
              /\ DictHas(calls[n].input, qualified_names[a][1])
              /\ DictGet(calls[n].input, qualified_names[a][1]) = None
              /\ ~DictHas(calls[n].flat_model, qualified_names[a][2])

-----------------------------------------------------------------------------
(* C11 *)

IsScalar(annotation) ==
    \/ annotation.origin = "" /\ annotation.name \notin ModelNames
    \/ annotation.origin = "Literal"

RECURSIVE ScalarLeaves(_)
\* every field of the model, at any depth, is a scalar or a model of such fields
ScalarLeaves(m) ==
    \A i \in 1..Len(model_fields(m)) :
        LET annotation == model_fields(m)[i].info.annotation
        IN  \/ IsScalar(annotation)
            \/ _is_pydantic_model(annotation) /\ ScalarLeaves(annotation.name)

RECURSIVE LeafCount(_)
\* the number of values in a nested mapping
LeafCount(tree) ==
    IF Len(tree) = 2 /\ tree[1] = "dict"
    THEN IF tree[2] = <<>> THEN 0
         ELSE LeafCount(tree[2][1][2]) + LeafCount(PyDict(Tail(tree[2])))
    ELSE 1

\* every option of the command was given on the command line
AllGiven(c) ==
    \A i \in 1..Len(options) :
        /\ DictHas(c.input, options[i].param_decls[1])
        /\ DictGet(c.input, options[i].param_decls[1]) # None

\* C11: for a model with only scalar leaves, without aliases or unpacking, when every
\* argument name is given a value, the nested mapping handed to model_validate holds at the
\* path of every leaf the value given for that leaf, and nothing else.
C11_RoundTrip ==
    \A n \in 1..Len(calls) :
        (/\ ScalarLeaves(model) /\ rename = None /\ ~unpack_list
         /\ ~calls[n].reused
         /\ AllGiven(calls[n]))
            => /\ Submitted(calls[n])
               /\ \A i \in 1..Len(fields) :
                     /\ HasPath(calls[n].submitted, fields[i].parents)
                     /\ GetPath(calls[n].submitted, fields[i].parents)
                            = DictGet(calls[n].input, options[i].param_decls[1])
               /\ LeafCount(calls[n].submitted) = Len(fields)

-----------------------------------------------------------------------------
(* C12, C13, C14, C15: option names *)

\* convert_to_click returned options
Decorated == pc \notin {"start", "ValueError"}

HasSlash(s) == \E i \in 1..Len(s) : s[i] = "/"

\* the aliases as get_option_name receives them
Aliases ==
    IF rename = None THEN <<>>
    ELSE [i \in 1..Len(rename) |-> <<rename[i][1], _convert_to_valid_prefix(rename[i][2])>>]

\* the lengths of the prefixes of the path ps that have an alias
AliasedPrefixes(ps) ==
    {k \in 1..Len(ps) : /\ DictHas(Aliases, Join(Take(ps, k), "."))
                        /\ DictGet(Aliases, Join(Take(ps, k), ".")) # <<>>}

\* the alias of the longest aliased prefix of ps, and the segments it does not cover
WinningAlias(ps) == DictGet(Aliases, Join(Take(ps, Max(AliasedPrefixes(ps))), "."))
Remaining(ps) == Drop(ps, Max(AliasedPrefixes(ps)))

\* lower case, with dashes for underscores and dots
Kebab(s) ==
    [i \in 1..Len(s) |-> IF s[i] \in {"_", "."} THEN "-"
                         ELSE IF s[i] \in DOMAIN Upper THEN Upper[s[i]] ELSE s[i]]

KebabPath(ps) == Join([i \in 1..Len(ps) |-> Kebab(ps[i])], "-")

\* the name built from the winning alias
AliasName(ps) ==
    IF Remaining(ps) = <<>> THEN WinningAlias(ps)
    ELSE WinningAlias(ps) \o <<"-">> \o KebabPath(Remaining(ps))

\* the name built from the prefix and the path
DefaultName(ps) ==
    LET p == IF prefix = None THEN <<>> ELSE strip_option_name(prefix)
    IN  <<"-", "-">> \o (IF p = <<>> THEN <<>> ELSE p \o <<"-">>) \o KebabPath(ps)

\* --N/--no-N for the name --N
Dual(base) ==
    LET N == SubSeq(base, 3, Len(base))
    IN  <<"-", "-">> \o N \o <<"/", "-", "-", "n", "o", "-">> \o N

OptionNameOf(i) == options[i].param_decls[2]

\* option i is named after `base`
NamedAs(i, base) ==
    IF is_boolean_flag(fields[i]) /\ ~HasSlash(base)
    THEN OptionNameOf(i) = Dual(base)
    ELSE OptionNameOf(i) = base

\* C12: the alias of the longest aliased prefix of the dotted path wins; the option is named
\* by that alias when it covers the whole path, and by the alias, a dash and the remaining
\* segments in kebab case joined by dashes when it covers a strict ancestor.
C12_LongestAliasWins ==
    Decorated =>
        \A i \in 1..Len(options) :
            AliasedPrefixes(fields[i].parents) # {} => NamedAs(i, AliasName(fields[i].parents))

\* with {foo: --oof, foo.b: B}, foo.a is --oof-a and foo.b is named after --B
C12_Witness ==
    /\ Decorated
    /\ model = "Obj"
    /\ \E i, j \in 1..Len(options) :
          /\ fields[i].dotted_name = <<"f", "o", "o", ".", "a">>
          /\ OptionNameOf(i) = <<"-", "-", "o", "o", "f", "-", "a">>
          /\ fields[j].dotted_name = <<"f", "o", "o", ".", "b">>
          /\ OptionNameOf(j) = <<"-", "-", "B", "/", "-", "-", "n", "o", "-", "B">>

\* C13: without an alias for the path or an ancestor, the option is named -- followed by the
\* prefix, if any, and the path in kebab case joined by dashes; with such an alias the prefix
\* is not part of the name.
C13_PrefixedDefaultName ==
    Decorated =>
        \A i \in 1..Len(options) :
            IF AliasedPrefixes(fields[i].parents) = {}
            THEN NamedAs(i, DefaultName(fields[i].parents))
            ELSE /\ StartsWith(OptionNameOf(i), WinningAlias(fields[i].parents))
                 /\ prefix # None =>
                       ~StartsWith(OptionNameOf(i),
                                   <<"-", "-">> \o strip_option_name(prefix) \o <<"-">>)

\* with the prefix p and an alias for foo, bar.a is --p-bar-a and foo.a is --oof-a
C13_Witness ==
    /\ Decorated
    /\ prefix = <<"p">>
    /\ \E i, j \in 1..Len(options) :
          /\ fields[i].dotted_name = <<"b", "a", "r", ".", "a">>
          /\ OptionNameOf(i) = <<"-", "-", "p", "-", "b", "a", "r", "-", "a">>
          /\ fields[j].dotted_name = <<"f", "o", "o", ".", "a">>
          /\ OptionNameOf(j) = <<"-", "-", "o", "o", "f", "-", "a">>

\* C14: a boolean field whose resolved name --N has no slash is named --N/--no-N; a
\* resolved name with a slash, and the resolved name of a field that is not boolean, are
\* the option name as they are.
C14_BooleanDualForm ==
    Decorated =>
        \A i \in 1..Len(options) :
            LET ps == fields[i].parents
                base == IF AliasedPrefixes(ps) = {} THEN DefaultName(ps) ELSE AliasName(ps)
            IN  IF ~is_boolean_flag(fields[i]) THEN OptionNameOf(i) = base
                ELSE IF HasSlash(base) THEN OptionNameOf(i) = base
                ELSE /\ OptionNameOf(i) = Dual(base)
                     /\ Len(OptionNameOf(i)) = 2 * Len(base) + 4

\* Flags with the alias --y/--n for foo.b: v is dual, foo.b keeps the alias, foo.a is plain
C14_Witness ==
    /\ Decorated
    /\ model = "Flags"
    /\ prefix = None
    /\ \E i, j, k \in 1..Len(options) :
          /\ fields[i].dotted_name = <<"v">>
          /\ OptionNameOf(i) = <<"-", "-", "v", "/", "-", "-", "n", "o", "-", "v">>
          /\ fields[j].dotted_name = <<"f", "o", "o", ".", "b">>
          /\ OptionNameOf(j) = <<"-", "-", "y", "/", "-", "-", "n">>
          /\ fields[k].dotted_name = <<"f", "o", "o", ".", "a">>
          /\ OptionNameOf(k) = <<"-", "-", "f", "o", "o", "-", "a">>

\* the winning alias of the path is a dual alias of a strict ancestor
DualAliasOfAncestor(ps) ==
    /\ AliasedPrefixes(ps) # {}
    /\ Remaining(ps) # <<>>
    /\ HasSlash(WinningAlias(ps))

\* C15: the conversion raises ValueError exactly when the winning alias of some field is a
\* dual alias of a strict ancestor; it then returns no option and no name-mapping, and the
\* command is never invoked.
C15_DualAliasOfAncestorRaises ==
    Converted =>
        /\ pc = "ValueError" <=> \E i \in 1..Len(fields) : DualAliasOfAncestor(fields[i].parents)
        /\ pc = "ValueError" =>
              /\ options = <<>>
              /\ qualified_names = <<>>
              /\ kwargs = <<>>
              /\ calls = <<>>

\* Foos with unpack_list and the alias --on/--off for foos
C15_Witness ==
    /\ pc = "ValueError"
    /\ model = "Foos"
    /\ unpack_list
    /\ exclude = {}
    /\ Len(fields) = 2
    /\ options = <<>>

-----------------------------------------------------------------------------
(* C16 *)

\* C16: an option is required exactly when its field has no default, no default factory and
\* is not multiple.
C16_RequiredUnlessMultiple ==
    Decorated =>
        \A i \in 1..Len(options) :
            options[i].required <=>
                (/\ fields[i].field_info.default = "Undefined"
                 /\ ~fields[i].field_info.default_factory
                 /\ ~multiple(fields[i]))

-----------------------------------------------------------------------------
(* C17 *)

\* the argument of get_config for the key differs from the default of the signature
NonDefault(key) ==
    CASE key = "exclude" -> call_options.exclude # <<>>
      [] key = "docstring_style" -> call_options.docstring_style # "google"
      [] OTHER -> call_options[key] # "None"

\* the value of the key by priority: the argument, the model's __pydanclick__, the default
ByPriority(key) ==
    IF NonDefault(key) THEN call_options[key]
    ELSE IF key \in DOMAIN default_options_of(schema_options)
         THEN default_options_of(schema_options)[key]
    ELSE PydanclickConfigDefaults[key]

\* C17: get_config resolves every key on its own: an argument that is not the default wins
\* over the value of the model's __pydanclick__, which wins over the default.
C17_PerKeyPriority ==
    cfg_pc = "done" =>
        /\ config.exclude = {ByPriority("exclude")[i] : i \in 1..Len(ByPriority("exclude"))}
        /\ config.aliases = ByPriority("rename")
        /\ config.shorten = ByPriority("shorten")
        /\ config.prefix = ByPriority("prefix")
        /\ config.parse_docstring = ByPriority("parse_docstring")
        /\ config.extra_options = ByPriority("extra_options")
        /\ config.docstring_style = ByPriority("docstring_style")

-----------------------------------------------------------------------------
(* C18, C19, C20: the type mapper *)

\* _get_type_from_field has returned
Typed == tpc \in {"typed", "converted"}

\* Optional[T]: a union of two members, one of them None
IsOptional(annotation) ==
    /\ annotation.origin = "Union"
    /\ Len(annotation.args) = 2
    /\ \E i \in 1..2 : annotation.args[i] = NoneType
    /\ \E i \in 1..2 : annotation.args[i] # NoneType

\* the T of Optional[T]
NonNullMember(annotation) ==
    annotation.args[CHOOSE i \in 1..2 : annotation.args[i] # NoneType]

\* the type the field stands for: T for Optional[T] = None
FieldType(field) ==
    IF IsOptional(field.annotation) /\ field.default = "None"
    THEN NonNullMember(field.annotation)
    ELSE field.annotation

\* C18: for a field whose type is in the registry of string types when the field is
\* converted, the mapper returns the parameter type of that type, named as registered,
\* which validates a raw string as that type and not as JSON text.
C18_RegisteredStringType ==
    (/\ Typed
     /\ FieldType(mapped_field).origin = ""
     /\ DictHas(types_names_then, FieldType(mapped_field).name))
        => /\ click_type.actual_type.class = "PydanticStringParam"
           /\ click_type.actual_type.name
                  = DictGet(types_names_then, FieldType(mapped_field).name)
           /\ click_type.actual_type
                  = get_pydantic_paramtype(types_names_then, FieldType(mapped_field),
                                           mapped_field)
           /\ (tpc = "converted" /\ raw_value[1] = "str")
                  => convert_result[1] = "validate_python"

\* the value is the wrapped default of the option
IsDefaultPlaceholder(v) == v[1] \in {"PydanclickDefault", "PydanclickDefaultCallable"}

\* C19 as stated: the parameter type returns the default placeholder unchanged and hands
\* every other value to the wrapped parser.
C19_PlaceholderPassedThrough ==
    tpc = "converted" =>
        IF IsDefaultPlaceholder(raw_value) THEN convert_result = raw_value
        ELSE convert_result = ActualConvert(click_type.actual_type, raw_value)

\* C19 amended: the parameter type returns None for the default placeholder, without
\* parsing it, and hands every other value to the wrapped parser.
C19_PlaceholderBecomesNone ==
    tpc = "converted" =>
        IF IsDefaultPlaceholder(raw_value) THEN convert_result = None
        ELSE convert_result = ActualConvert(click_type.actual_type, raw_value)

\* the integer type was given the placeholder of the default 1 and returned None
C19_Witness ==
    /\ tpc = "converted"
    /\ click_type.actual_type = click_INT
    /\ raw_value = PydanclickDefault("1")
    /\ convert_result = None

SupportedPrimitives ==
    {Scalar("str"), Scalar("int"), Scalar("float"), Scalar("bool"), Scalar("UUID"),
     Scalar("Path"), Scalar("datetime"), Scalar("date")}

\* C20: Optional[T] is mapped as T when the default of the field is None, and is not
\* collapsed, hence mapped by the last rule, when the default is a value or is missing.
C20_CollapseOnlyWithNoneDefault ==
    (Typed /\ IsOptional(mapped_field.annotation)) =>
        IF mapped_field.default = "None"
        THEN NonNullMember(mapped_field.annotation) \in SupportedPrimitives =>
                 click_type.actual_type
                     = _get_click_type_from_field(
                           [mapped_field EXCEPT
                               !.annotation = NonNullMember(mapped_field.annotation)])
        ELSE click_type.actual_type = _create_custom_type(mapped_field)

-----------------------------------------------------------------------------
(* C21 *)

\* the field is declared int or float
IsNumeric(field) == field.annotation \in {Scalar("int"), Scalar("float")}

\* n satisfies the bound the constraint declares
SatisfiesBound(c, n) ==
    CASE c.kind = "Gt" -> n > c.bound
      [] c.kind = "Ge" -> n >= c.bound
      [] c.kind = "Lt" -> n < c.bound
      [] c.kind = "Le" -> n <= c.bound

\* the bound of the range the constraint is claimed to give
MapsToBound(c, range_args) ==
    CASE c.kind = "Gt" -> DictGet(range_args, "min") = c.bound /\ DictGet(range_args, "min_open")
      [] c.kind = "Ge" -> DictGet(range_args, "min") = c.bound /\ ~DictGet(range_args, "min_open")
      [] c.kind = "Lt" -> DictGet(range_args, "max") = c.bound /\ DictGet(range_args, "max_open")
      [] c.kind = "Le" -> DictGet(range_args, "max") = c.bound /\ ~DictGet(range_args, "max_open")

\* C21: a numeric field without constraints gets click.INT or click.FLOAT; with constraints
\* it gets a range whose bounds are those of the constraints (gt, lt exclusive; ge, le
\* inclusive), and its parser accepts a number if and only if the number satisfies every
\* declared bound.
C21_RangeAcceptsExactlyTheBounds ==
    (Typed /\ IsNumeric(mapped_field)) =>
        LET t == click_type.actual_type
            metadata == mapped_field.metadata
        IN  /\ metadata = <<>> =>
                   t = IF mapped_field.annotation = Scalar("int") THEN click_INT ELSE click_FLOAT
            /\ metadata # <<>> =>
                   /\ t.class = IF mapped_field.annotation = Scalar("int") THEN "IntRange"
                                ELSE "FloatRange"
                   /\ \A i \in 1..Len(metadata) : MapsToBound(metadata[i], t.range)
            /\ (tpc = "converted" /\ ParseNumber(raw_value)[1] = "val") =>
                   LET n == ParseNumber(raw_value)[2]
                   IN  (convert_result = <<"val", n>>)
                           <=> \A i \in 1..Len(metadata) : SatisfiesBound(metadata[i], n)

-----------------------------------------------------------------------------
(* C24 *)

\* the names a call of register_pydanclick_string_type may give to new_type
NamesFor(new_type) ==
    {camel_case_to_snake_case(new_type.__name__)} \cup (RegisteredNames \ {None})

\* C24: every step keeps every key of the registry, the default ones included, and changes
\* at most the entry of one registered type, whose name becomes the given name or the
\* snake-cased name of the type.
C24_RegistryGrowsMonotonically ==
    [][/\ \A i \in 1..Len(TYPES_NAMES) : DictHas(TYPES_NAMES', TYPES_NAMES[i][1])
       /\ \A i \in 1..Len(DefaultTypesNames) : DictHas(TYPES_NAMES', DefaultTypesNames[i][1])
       /\ TYPES_NAMES' # TYPES_NAMES =>
              \E new_type \in RegistrableTypes :
                  /\ \A i \in 1..Len(TYPES_NAMES) :
                         TYPES_NAMES[i][1] # new_type.name =>
                             DictGet(TYPES_NAMES', TYPES_NAMES[i][1]) = TYPES_NAMES[i][2]
                  /\ \A i \in 1..Len(TYPES_NAMES') :
                         \/ TYPES_NAMES'[i][1] = new_type.name
                         \/ DictHas(TYPES_NAMES, TYPES_NAMES'[i][1])
                  /\ DictGet(TYPES_NAMES', new_type.name) \in NamesFor(new_type)]_vars

\* both types were registered, Color under its snake-cased name and MacAddress as "mac"
C24_Witness ==
    /\ Len(TYPES_NAMES) = Len(DefaultTypesNames) + 2
    /\ DictGet(TYPES_NAMES, "Color") = <<"c", "o", "l", "o", "r">>
    /\ DictGet(TYPES_NAMES, "MacAddress") = <<"m", "a", "c">>
    /\ \A i \in 1..Len(DefaultTypesNames) : TYPES_NAMES[i] = DefaultTypesNames[i]

-----------------------------------------------------------------------------
(* C30 *)

\* the parser without the annotation it was built from
ParserOf(t) == [class |-> t.class, name |-> t.name, range |-> t.range, choices |-> t.choices]

\* C30: an optional field that the mapper collapses is mapped as its non-null member,
\* whichever of the two members is declared first.
C30_CollapseIgnoresMemberOrder ==
    (/\ Typed
     /\ IsOptional(mapped_field.annotation)
     /\ DefaultAllowsCollapse(mapped_field.default))
        => ParserOf(click_type.actual_type)
               = ParserOf(_get_click_type_from_field(
                              [mapped_field EXCEPT
                                  !.annotation = NonNullMember(mapped_field.annotation)]))

-----------------------------------------------------------------------------
(* C23 *)

\* C23: once convert_to_click has returned, no step changes the name-mapping or the set of
\* unpacked names the validator has captured, whatever the keyword values and whether or
\* not the call fails.
C23_CapturedOnce ==
    [][Converted => /\ qualified_names' = qualified_names
                    /\ unpacked_names' = unpacked_names]_vars

\* the validator has been called as often as the bound allows, with values and then on the
\* dict it had emptied, for a model with an unpacked list
C23_Witness ==
    /\ Len(calls) = MaxCalls
    /\ qualified_names # <<>>
    /\ unpacked_names # {}
    /\ \E n \in 1..Len(calls) : calls[n].flat_model # <<>>
    /\ \E n \in 1..Len(calls) : calls[n].reused

-----------------------------------------------------------------------------
(* C29 *)

\* C29: after a call of the validator the keyword dict holds no key of the name-mapping,
\* the keys whose value was None included, and holds every other key it held with the
\* value it had, and nothing else.
C29_ConsumedKeysRemoved ==
    \A n \in 1..Len(calls) :
        LET inp == calls[n].input
            out == calls[n].kwargs
        IN  /\ \A a \in 1..Len(qualified_names) : ~DictHas(out, qualified_names[a][1])
            /\ \A i \in 1..Len(inp) :
                   ~DictHas(qualified_names, inp[i][1])
                       => DictHas(out, inp[i][1]) /\ DictGet(out, inp[i][1]) = inp[i][2]
            /\ \A i \in 1..Len(out) : DictHas(inp, out[i][1])
            /\ \A i, j \in 1..Len(out) : i # j => out[i][1] # out[j][1]

\* a call whose dict held a key of the name-mapping with the value None, another with a
\* value, and the key of another option, which alone is left
C29_Witness ==
    \E n \in 1..Len(calls) :
        /\ ~calls[n].reused
        /\ \E a \in 1..Len(qualified_names) :
               /\ DictHas(calls[n].input, qualified_names[a][1])
               /\ DictGet(calls[n].input, qualified_names[a][1]) = None
        /\ \E a \in 1..Len(qualified_names) :
               /\ DictHas(calls[n].input, qualified_names[a][1])
               /\ DictGet(calls[n].input, qualified_names[a][1]) # None
        /\ calls[n].kwargs = <<<<OtherKey, <<"val", 0>> >> >>

-----------------------------------------------------------------------------
(* C26 *)

\* the paths of the declared fields that are lists of one model, the fields of the item
\* models included
ListPaths ==
    LET decl == DeclaredFields(model, 1, <<>>, TRUE)
    IN  {decl[k].path : k \in {j \in 1..Len(decl) : IsListOfModel(decl[j].info.annotation)}}

\* the lists of models the path lies in or is
ListsAbove(path) == {p \in ListPaths : DotPrefix(p, path)}

\* the outermost of them
OutermostList(path) ==
    CHOOSE p \in ListsAbove(path) : \A q \in ListsAbove(path) : Len(p) <= Len(q)

\* C26: with unpacking on, every field marked as unpacked is marked with the dotted path of
\* the outermost list of models it lies in, and a list of models declared inside the item
\* model of such a list is returned as one leaf, not expanded again.
C26_NoNestedUnpacking ==
    (Converted /\ unpack_list) =>
        LET decl == DeclaredFields(model, 1, <<>>, TRUE)
        IN  /\ \A i \in 1..Len(fields) :
                   fields[i].unpacked_from # None =>
                       /\ ListsAbove(fields[i].parents) # {}
                       /\ fields[i].unpacked_from
                              = Join(OutermostList(fields[i].parents), ".")
            /\ \A k \in 1..Len(decl) :
                   (/\ exclude = {}
                    /\ IsListOfModel(decl[k].info.annotation)
                    /\ OutermostList(decl[k].path) # decl[k].path)
                       => LET below == Below(fields, decl[k].path)
                          IN  /\ Len(below) = 1
                              /\ below[1].parents = decl[k].path
                              /\ below[1].field_info = decl[k].info
                              /\ below[1].unpacked_from
                                     = Join(OutermostList(decl[k].path), ".")

\* Outer{items: list[Inner]}, Inner{n, foos: list[Foo]}: items.foos is one leaf marked with
\* items
C26_Witness ==
    /\ Converted
    /\ unpack_list
    /\ model = "Outer"
    /\ \E i \in 1..Len(fields) :
           /\ fields[i].dotted_name = <<"i", "t", "e", "m", "s", ".", "f", "o", "o", "s">>
           /\ IsListOfModel(fields[i].field_info.annotation)
           /\ fields[i].unpacked_from = <<"i", "t", "e", "m", "s">>
    /\ \A i \in 1..Len(fields) :
           Len(fields[i].parents) <= 2

-----------------------------------------------------------------------------
(* C27 *)

\* the unpacked names that model_validate_kwargs packs in call c: unpacked_names &
\* raw_model.keys()
ReachesPacking(c, u) ==
    /\ ~IsError(c.nested)
    /\ Len(Split(u, ".")) = 1
    /\ DictHas(c.nested[2], u)

\* C27: the mapping found at an unpacked name that is packed holds, for every key, a column
\* (a sequence with one value per occurrence) and never a nested mapping, and the rows made
\* of it hold, per key, the value of the corresponding occurrence.
C27_PackedValuesAreColumns ==
    \A n \in 1..Len(calls) :
        \A u \in unpacked_names :
            ReachesPacking(calls[n], u) =>
                /\ IsColumns(calls[n].nested, <<u>>)
                /\ ~IsError(calls[n].submitted)
                /\ IsTransposed(DictGet(calls[n].nested[2], u)[2], RowsAt(calls[n], u))

-----------------------------------------------------------------------------
(* C28 *)

\* key p is a strict dot-delimited prefix of key k
StrictDotPrefix(p, k) ==
    /\ Len(p) < Len(k)
    /\ SubSeq(k, 1, Len(p)) = p
    /\ k[Len(p) + 1] = "."

\* no key of d is a strict dot-delimited prefix of another
PrefixFree(d) == \A i, j \in 1..Len(d) : ~StrictDotPrefix(d[i][1], d[j][1])

HasEmptyKey(d) == \E i \in 1..Len(d) : d[i][1] = <<>>

RECURSIVE Flatten(_, _)
\* the leaves of a nested mapping with their dotted paths
Flatten(tree, parents) ==
    UNION {LET key == tree[2][k][1]
               value == tree[2][k][2]
               path == IF parents = <<>> THEN key ELSE parents \o <<".">> \o key
           IN  IF IsDict(value) THEN Flatten(value, path) ELSE {<<path, value>>}
           : k \in 1..Len(tree[2])}

\* C28: for a flat dict without an empty key and without a key that is a strict
\* dot-delimited prefix of another, _unflatten_dict returns a nested mapping that holds v at
\* the path split(k) for every entry (k, v) and has no other leaf, so that flattening it
\* gives the entries back whatever their order; with an empty key it raises ValueError.
C28_UnflattenRoundTrip ==
    (upc = "done" /\ PrefixFree(flat_dict)) =>
        IF HasEmptyKey(flat_dict) THEN unflattened = Error("ValueError")
        ELSE /\ IsDict(unflattened)
             /\ \A i \in 1..Len(flat_dict) :
                    /\ HasPath(unflattened, Split(flat_dict[i][1], "."))
                    /\ GetPath(unflattened, Split(flat_dict[i][1], ".")) = flat_dict[i][2]
             /\ Flatten(unflattened, <<>>) = {flat_dict[i] : i \in 1..Len(flat_dict)}

\* the dict {"b": ..., "a.c": ..., "a.b": ...} was unflattened into two levels
C28_Witness ==
    /\ upc = "done"
    /\ flat_dict = <<<<FlatKeys[5], FlatValue(5)>>, <<FlatKeys[4], FlatValue(4)>>,
                      <<FlatKeys[3], FlatValue(3)>>>>
    /\ unflattened = PyDict(<<<<<<"b">>, FlatValue(5)>>,
                              <<<<"a">>, PyDict(<<<<<<"c">>, FlatValue(4)>>,
                                                  <<<<"b">>, FlatValue(3)>>>>)>>>>)

-----------------------------------------------------------------------------
(* C22 *)

\* the original handler was called
HandlerCalled == mpc = "called" /\ ~IsError(handler_kwargs)

\* the keys the decorated handler consumes: the fields of the model that are not excluded
Consumed(key) == \E i \in 1..Len(main_fields) : main_fields[i] = key

\* the instance of the model validated from the consumed keywords
ValidatedInstance ==
    <<"instance", main_model,
      SelectSeq([i \in 1..Len(main_fields) |->
                    <<main_fields[i],
                      IF DictHas(wrapped_kwargs, main_fields[i])
                      THEN DictGet(wrapped_kwargs, main_fields[i]) ELSE None>>],
                LAMBDA e : DictHas(wrapped_kwargs, e[1]))>>

\* C22 as stated: the handler is called with every keyword that was not consumed
\* unchanged, with the new keyword main_var holding the validated instance, with no
\* consumed key, and with nothing else.
C22_HandlerKeywords ==
    HandlerCalled =>
        LET out == handler_kwargs[2]
        IN  /\ \A i \in 1..Len(wrapped_kwargs) :
                   ~Consumed(wrapped_kwargs[i][1])
                       => /\ DictHas(out, wrapped_kwargs[i][1])
                          /\ DictGet(out, wrapped_kwargs[i][1]) = wrapped_kwargs[i][2]
            /\ ~DictHas(wrapped_kwargs, main_var)
            /\ DictHas(out, main_var) /\ DictGet(out, main_var) = ValidatedInstance
            /\ \A i \in 1..Len(out) : ~Consumed(out[i][1])
            /\ Len(out) = Cardinality({i \in 1..Len(wrapped_kwargs) :
                                          ~Consumed(wrapped_kwargs[i][1])}) + 1

\* C22 amended: the handler is called with the keyword main_var holding the validated
\* instance, with every other keyword that was not consumed unchanged, with no consumed
\* key other than main_var, and with nothing else.
C22_HandlerKeywordsButTarget ==
    HandlerCalled =>
        LET out == handler_kwargs[2]
        IN  /\ DictHas(out, main_var) /\ DictGet(out, main_var) = ValidatedInstance
            /\ \A i \in 1..Len(wrapped_kwargs) :
                   (~Consumed(wrapped_kwargs[i][1]) /\ wrapped_kwargs[i][1] # main_var)
                       => /\ DictHas(out, wrapped_kwargs[i][1])
                          /\ DictGet(out, wrapped_kwargs[i][1]) = wrapped_kwargs[i][2]
            /\ \A i \in 1..Len(out) : Consumed(out[i][1]) => out[i][1] = main_var
            /\ \A i \in 1..Len(out) :
                   out[i][1] # main_var => DictHas(wrapped_kwargs, out[i][1])
            /\ \A i, j \in 1..Len(out) : i # j => out[i][1] # out[j][1]

\* the handler decorated with from_pydantic("config", Bar, exclude=["a"]) was called with
\* b, baz and the value of another option: it received the other option and config
C22_Witness ==
    /\ HandlerCalled
    /\ main_model = "Bar"
    /\ main_exclude = {<<"a">>}
    /\ main_var = <<"c", "o", "n", "f", "i", "g">>
    /\ Len(wrapped_kwargs) = 3
    /\ DictKeys(handler_kwargs[2]) = <<OtherKey, main_var>>

-----------------------------------------------------------------------------
(* C25 *)

\* the option prefix and the aliases convert_fields_to_options works with
ConvOptionPrefix == IF conv_prefix # None THEN _convert_to_valid_prefix(conv_prefix) ELSE <<>>

ConvAliases ==
    IF conv_aliases = None THEN <<>>
    ELSE [i \in 1..Len(conv_aliases) |->
             <<conv_aliases[i][1], _convert_to_valid_prefix(conv_aliases[i][2])>>]

\* stands for the ValueError of get_option_name among the codes
ValueErrorRaised == <<"V", "a", "l", "u", "e", "E", "r", "r", "o", "r">>

\* what converting the field raises: the ValueError of the option name, the code of the
\* schema engine's error for a type without schema, <<>> when the field converts
FieldRaises(field) ==
    IF IsError(get_option_name(field.dotted_name, ConvAliases, is_boolean_flag(field),
                               ConvOptionPrefix))
    THEN ValueErrorRaised
    ELSE IF _get_click_type_from_field(field.field_info).class \in {"custom", "PydanticUserError"}
    THEN TypeAdapterError(field.field_info.annotation)
    ELSE <<>>

\* the field is skipped: unsupported type and ignore_unsupported set
Skipped(field) == conv_ignore_unsupported /\ FieldRaises(field) = schema_for_unknown_type

\* the field's error is not absorbed
Fatal(field) == FieldRaises(field) # <<>> /\ ~Skipped(field)

\* the fields that are neither skipped nor failing, in order
ConvertedFields == SelectSeq(conv_fields, LAMBDA field : FieldRaises(field) = <<>>)

\* C25: a field whose conversion raises the unsupported-type error is skipped when
\* ignore_unsupported is set: no option and no name-mapping entry for it, the remaining
\* fields converted in order; otherwise, and for any other error, the error propagates
\* and nothing is returned.
C25_UnsupportedFieldsSkipped ==
    fpc = "returned" =>
        IF \E i \in 1..Len(conv_fields) : Fatal(conv_fields[i])
        THEN LET first == CHOOSE i \in 1..Len(conv_fields) :
                              /\ Fatal(conv_fields[i])
                              /\ \A j \in 1..(i - 1) : ~Fatal(conv_fields[j])
                 raised == FieldRaises(conv_fields[first])
             IN  /\ conv_result.options = <<>>
                 /\ conv_result.qualified_names = <<>>
                 /\ IF raised = ValueErrorRaised THEN conv_result.error = "ValueError"
                    ELSE /\ conv_result.error = "PydanticUserError"
                         /\ conv_result.code = raised
        ELSE /\ conv_result.error = ""
             /\ Len(conv_result.options) = Len(ConvertedFields)
             /\ \A i \in 1..Len(ConvertedFields) :
                    /\ conv_result.options[i].type =
                           _get_pydanclick_type(
                               _get_click_type_from_field(ConvertedFields[i].field_info))
                    /\ conv_result.qualified_names[i] =
                           <<conv_result.options[i].param_decls[1],
                             ConvertedFields[i].dotted_name>>
             /\ Len(conv_result.qualified_names) = Len(ConvertedFields)
             /\ \A i \in 1..Len(conv_fields) :
                    Skipped(conv_fields[i]) =>
                        \A j \in 1..Len(conv_result.qualified_names) :
                            conv_result.qualified_names[j][2] # conv_fields[i].dotted_name

\* Odds was converted with ignore_unsupported: x and y are skipped, n and foos converted
C25_Witness ==
    /\ fpc = "returned"
    /\ conv_ignore_unsupported
    /\ conv_result.error = ""
    /\ Len(conv_fields) = 4
    /\ Skipped(conv_fields[1]) /\ Skipped(conv_fields[4])
    /\ Len(conv_result.options) = 2
    /\ [i \in 1..2 |-> conv_result.qualified_names[i][2]] =
           <<conv_fields[2].dotted_name, conv_fields[3].dotted_name>>

====
